---- MODULE Spec2Model ----
(***************************************************************************)
(* Geocode resolution and caching of the PDV locator backend.              *)
(*                                                                         *)
(* Part 1 (specification Spec): the address-keyed cache of src/app.js      *)
(* lines 665-719: geocodeCache, saveGeocodeCache, inflightGeocoding and    *)
(* geocodeAddress, together with the file geocode_cache.json and the       *)
(* provider (OpenCage) answering the outstanding calls.                    *)
(*                                                                         *)
(* Part 2 (specification SpecPdv): the store-id-keyed cache of src/app.js  *)
(* lines 105-208 and 400-407: readGeocache, writeGeocache, loadPdvsMap and *)
(* POST /admin/clear-pdv-cache, with the file pdv_geocache.json.           *)
(*                                                                         *)
(* Part 3 (specification SpecPure): the helpers distance and               *)
(* buildAddressFromRow of src/app.js lines 722-752, applied to arguments   *)
(* drawn from bounded sets.                                                *)
(*                                                                         *)
(* Part 4 (specification SpecQuery): the routes /pdvs/proximos and         *)
(* /pdvs/proximos/produto of src/app.js lines 776-931, serving one request *)
(* from its arrival to its answer.                                         *)
(*                                                                         *)
(* Part 5 (specification SpecServer): the in-memory server of              *)
(* src/server.js (and its older copy src/unnamed/part_000): bootstrap, the *)
(* three loaders and the route /pdvs/proximos/produto.                     *)
(*                                                                         *)
(* Part 6 (specification SpecWarm): the warm-up script                     *)
(* src/warm_geocode.js: the queue, tick and geocode.                       *)
(*                                                                         *)
(* Strings are sequences of characters, so that trimming is computed.      *)
(* JavaScript values are records [t, lat, lon] with t the kind of value.   *)
(***************************************************************************)
EXTENDS Integers, Sequences, FiniteSets, TLC

VARIABLES
    fileContent,        \* geocode_cache.json on disk
    OPENCAGE_KEY,       \* TRUE iff process.env.OPENCAGE_KEY is a non-empty string
    geocodeCache,       \* the module-wide value `geocodeCache`
    inflightGeocoding,  \* the Map address -> Promise (0: no entry)
    promise,            \* the promises made by geocodeAddress's inner async function
    caller,             \* the callers of geocodeAddress (ensureCoords of a request)
    outcome,            \* history: key -> how its last provider call ended
    writeFailed,        \* history: some writeFileSync of the cache file has thrown
    pdvFile,            \* pdv_geocache.json on disk
    pass,               \* the running loadPdvsMap passes
    stamp,              \* history: serial number of the last provider resolution
    clearedAt,          \* history: stamp at the last successful clear (-1: none)
    call,               \* the last call of a helper: its name, arguments and result
    PDV_PROD_FILE,      \* the rows of pdv_produtos.csv
    request,            \* the query of the HTTP request being served
    handler,            \* the position and the locals of its route handler
    response,           \* the answer sent (status 0: none yet)
    pipeline,           \* history: store files loaded and geocodeAddress calls made
    build,              \* which in-memory server runs: "server.js" or "part_000"
    boot,               \* the position of bootstrap() and the loads it has started
    products,           \* server.js `products`: the ids of the loaded products
    pdvProductsMapping, \* server.js `pdvProductsMapping`: store id -> product ids
    stores,             \* server.js `stores`
    reply,              \* the answer of the in-memory product route (status 0: none)
    warm                \* the warm-up script: its cache, queue, counters and calls

cacheVars == <<fileContent, OPENCAGE_KEY, geocodeCache, inflightGeocoding, promise,
               caller, outcome, writeFailed>>
pdvVars == <<pdvFile, pass, stamp, clearedAt>>
pureVars == <<call>>
queryVars == <<PDV_PROD_FILE, request, handler, response, pipeline>>
serverVars == <<build, boot, products, pdvProductsMapping, stores, reply>>
warmVars == <<warm>>
vars == <<cacheVars, pdvVars, pureVars, queryVars, serverVars, warmVars>>

----------------------------------------------------------------------------
(* Bounds *)

\* number of requests that may be inside geocodeAddress at the same time
NumCallers == 2

----------------------------------------------------------------------------
(* Strings *)

SP == " "      \* a whitespace character
LS == "\\uD800" \* a lone surrogate: encodeURIComponent throws URIError on it

\* the raw `address` arguments given to geocodeAddress
AddrInputs == { <<"a">>, <<SP, "a">>, <<"a", SP>>, <<LS>>, <<SP>>, <<>> }

RECURSIVE TrimStart(_)
TrimStart(s) == IF s # <<>> /\ Head(s) = SP THEN TrimStart(Tail(s)) ELSE s

RECURSIVE TrimEnd(_)
TrimEnd(s) == IF s # <<>> /\ s[Len(s)] = SP THEN TrimEnd(SubSeq(s, 1, Len(s) - 1)) ELSE s

\* String(address || '').trim()
norm(s) == TrimEnd(TrimStart(s))

\* encodeURIComponent(addr) throws exactly when addr holds a lone surrogate
EncodeThrows(addr) == \E i \in 1..Len(addr) : addr[i] = LS

\* the keys the cache and the in-flight map can hold
Keys == { norm(a) : a \in AddrInputs } \ { <<>> }

----------------------------------------------------------------------------
(* JavaScript values *)

Null == [t |-> "null", lat |-> 0, lon |-> 0]
Undefined == [t |-> "undefined", lat |-> 0, lon |-> 0]
Thrown == [t |-> "TypeError", lat |-> 0, lon |-> 0]
Pair(la, lo) == [t |-> "pair", lat |-> la, lon |-> lo]

\* the coordinate pairs the provider answers with
Pairs == { Pair(-26, -48), Pair(-27, -49) }

Truthy(v) == v.t = "pair"

NoProps == [k \in {} |-> Null]
SetProp(props, k, v) == [x \in (DOMAIN props) \cup {k} |-> IF x = k THEN v ELSE props[x]]

----------------------------------------------------------------------------
(* geocode_cache.json and the value of geocodeCache *)

\* What the file can hold: nothing (absent), something that cannot be read,
\* text JSON.parse rejects (garbage), or the JSON text of null, of a primitive
\* (number, string, boolean), of an array, or of an object with its properties.
FileKinds == {"absent", "unreadable", "garbage", "null", "primitive", "array", "object"}

File(kind, props) == [kind |-> kind, props |-> props]

\* Object.create(null); no address of AddrInputs names a property of
\* Object.prototype, so the object JSON.parse makes reads the same way
EmptyObject == [kind |-> "object", props |-> NoProps]

\* a start that does not read the file
LoadNothing(f) == EmptyObject

\* lines 669-677: the value of geocodeCache after the module is loaded
LoadGeocodeCache(f) ==
    IF f.kind = "absent" THEN EmptyObject                         \* existsSync is false
    ELSE IF f.kind \in {"unreadable", "garbage"} THEN EmptyObject \* catch (err)
    ELSE [kind |-> f.kind, props |-> f.props]                     \* JSON.parse(...)

\* geocodeCache[addr]
CacheGet(c, addr) ==
    IF c.kind = "null" THEN Thrown           \* TypeError: cannot read properties of null
    ELSE IF addr \in DOMAIN c.props THEN c.props[addr]
    ELSE Undefined

\* an assignment that is lost
CachePutIgnored(c, addr, out) == c

\* geocodeCache[addr] = out (sloppy mode: silently ignored on a primitive)
CachePut(c, addr, out) ==
    IF c.kind \in {"object", "array"}
    THEN [c EXCEPT !.props = SetProp(c.props, addr, out)]
    ELSE c

\* JSON.stringify(geocodeCache, null, 2): only an object's own properties are
\* written; the named properties of an array are not
JSONStringify(c) ==
    IF c.kind = "object" THEN File("object", c.props) ELSE File(c.kind, NoProps)

\* how fs.writeFileSync can end: the file is replaced, the call throws before
\* touching the file, or it throws after truncating it
WriteOutcomes == {"written", "failed", "truncated"}

\* a save that does not write
saveGeocodeCacheSkipped(c, f, w) == f

\* lines 678-684: the file after saveGeocodeCache() with geocodeCache = c
saveGeocodeCache(c, f, w) ==
    CASE w = "written" -> JSONStringify(c)
      [] w = "failed" -> f
      [] w = "truncated" -> File("garbage", NoProps)

----------------------------------------------------------------------------
(* Promises, the in-flight map and the callers *)

Callers == 1..NumCallers

\* at most one promise per caller is referenced, plus the one the in-flight
\* map keeps for the address that cannot be encoded
PromiseIds == 1..(NumCallers + 1)

\* handed: the value already given to a caller that waited for the promise
\* (Undefined: to none yet); history, the program does not read it
FreePromise == [status |-> "free", addr |-> <<>>, value |-> Null, handed |-> Undefined]

\* how the last provider call of a key ended: "none" (no call yet), "failed"
\* (null, in this run), "this" (a pair, in this run), "earlier" (a pair, in a
\* run before the last restart)
NoOutcome == [run |-> "none", pair |-> Null]

\* via: the path the call took (Branch; "call" once a caller that started or
\* joined a request has returned); history, the program does not read it
IdleCaller == [pc |-> "idle", addr |-> <<>>, req |-> 0, result |-> Undefined, via |-> "none"]

\* a lookup that never finds the entry of an address
InflightHasNever(inf, addr) == FALSE

\* inflightGeocoding.has(addr)
InflightHas(inf, addr) == inf[addr] # 0

\* inflightGeocoding.delete(addr)
InflightDelete(inf, addr) == [inf EXCEPT ![addr] = 0]

\* inflightGeocoding.set(addr, p)
InflightSet(inf, addr, p) == [inf EXCEPT ![addr] = p]

\* a promise nobody holds any more is garbage: its identifier is reused
Referenced(p, c, inf) ==
    \/ \E r \in Callers : c[r].req = p
    \/ \E k \in Keys : inf[k] = p

Collect(pr, c, inf) ==
    [p \in PromiseIds |->
        IF pr[p].status = "settled" /\ ~Referenced(p, c, inf) THEN FreePromise ELSE pr[p]]

\* the provider calls of key k that have been sent and have not completed
Outstanding(k) == { p \in PromiseIds : promise[p].status \in {"fetch", "json"} /\ promise[p].addr = k }

----------------------------------------------------------------------------
(* geocodeAddress (src/app.js lines 687-719) *)

\* the caller gets a value: the async function returns it
Return(r, v, via) ==
    LET c == [caller EXCEPT ![r] = [pc |-> "returned", addr |-> <<>>, req |-> 0,
                                    result |-> v, via |-> via]]
    IN  /\ caller' = c
        /\ promise' = Collect(promise, c, inflightGeocoding)
        /\ UNCHANGED <<fileContent, OPENCAGE_KEY, geocodeCache, inflightGeocoding,
                       outcome, writeFailed>>

\* the caller gets a rejection: the async function threw
Raise(r) ==
    LET c == [caller EXCEPT ![r] = [pc |-> "raised", addr |-> <<>>, req |-> 0,
                                    result |-> Thrown, via |-> "throws"]]
    IN  /\ caller' = c
        /\ promise' = Collect(promise, c, inflightGeocoding)
        /\ UNCHANGED <<fileContent, OPENCAGE_KEY, geocodeCache, inflightGeocoding,
                       outcome, writeFailed>>

\* a caller that finds a request in flight and gets null at once instead of
\* the promise of that request
JoinInflightNull(r, addr) ==
    LET p == inflightGeocoding[addr]
        c == [caller EXCEPT ![r] = [pc |-> "returned", addr |-> <<>>, req |-> 0,
                                    result |-> Null, via |-> "call"]]
    IN  /\ caller' = c
        /\ promise' = Collect([promise EXCEPT ![p].handed = Null], c, inflightGeocoding)
        /\ UNCHANGED <<fileContent, OPENCAGE_KEY, geocodeCache, inflightGeocoding,
                       outcome, writeFailed>>

\* line 691: return inflightGeocoding.get(addr); the caller awaits that promise
JoinInflight(r, addr) ==
    LET p == inflightGeocoding[addr]
        c == [caller EXCEPT ![r] = [pc |-> "awaiting", addr |-> addr, req |-> p,
                                    result |-> Undefined, via |-> "join"]]
    IN  /\ caller' = c
        /\ promise' = Collect(promise, c, inflightGeocoding)
        /\ UNCHANGED <<fileContent, OPENCAGE_KEY, geocodeCache, inflightGeocoding,
                       outcome, writeFailed>>

\* lines 696-718 up to the first suspension point: the inner async function
\* runs until `await fetch(url)`, or, when encodeURIComponent throws, through
\* catch and finally to its end; only then line 717 stores the promise
StartGeocoding(r, addr) ==
    LET c0 == [caller EXCEPT ![r] = IdleCaller]
        pr0 == Collect(promise, c0, inflightGeocoding)
        p == CHOOSE q \in PromiseIds :
                /\ pr0[q].status = "free"
                /\ \A q2 \in PromiseIds : pr0[q2].status = "free" => q <= q2
        threw == EncodeThrows(addr)
        inf1 == IF threw THEN InflightDelete(inflightGeocoding, addr)   \* finally, line 714
                ELSE inflightGeocoding
        made == IF threw
                THEN [FreePromise EXCEPT !.status = "settled", !.addr = addr] \* catch, line 712
                ELSE [FreePromise EXCEPT !.status = "fetch", !.addr = addr]   \* await fetch(url)
    IN  /\ \E q \in PromiseIds : pr0[q].status = "free"
        /\ promise' = [pr0 EXCEPT ![p] = made]
        /\ inflightGeocoding' = InflightSet(inf1, addr, p)                 \* line 717
        /\ caller' = [caller EXCEPT ![r] =
                        [pc |-> "awaiting", addr |-> addr, req |-> p,
                         result |-> Undefined, via |-> "start"]]
        /\ UNCHANGED <<fileContent, OPENCAGE_KEY, geocodeCache, outcome, writeFailed>>

\* the path of a geocodeAddress that does not look at OPENCAGE_KEY
BranchWithoutKeyTest(addr) ==
    IF addr = <<>> THEN "empty"
    ELSE IF CacheGet(geocodeCache, addr) = Thrown THEN "throws"
    ELSE IF Truthy(CacheGet(geocodeCache, addr)) THEN "hit"
    ELSE IF InflightHas(inflightGeocoding, addr) THEN "join"
    ELSE "start"

\* the path geocodeAddress takes for the trimmed address addr, lines 689-696
Branch(addr) ==
    IF addr = <<>> THEN "empty"                                        \* line 689
    ELSE IF CacheGet(geocodeCache, addr) = Thrown THEN "throws"        \* line 690 on null
    ELSE IF Truthy(CacheGet(geocodeCache, addr)) THEN "hit"            \* line 690
    ELSE IF InflightHas(inflightGeocoding, addr) THEN "join"           \* line 691
    ELSE IF ~OPENCAGE_KEY THEN "nokey"                                 \* line 692
    ELSE "start"                                                       \* line 696

\* a request calls geocodeAddress(address)
geocodeAddress(r, address) ==
    LET addr == norm(address)                                          \* line 688
        b == Branch(addr)
    IN  /\ caller[r].pc # "awaiting"
        /\ CASE b = "empty" -> Return(r, Null, b)
             [] b = "throws" -> Raise(r)
             [] b = "hit" -> Return(r, CacheGet(geocodeCache, addr), b)
             [] b = "join" -> JoinInflight(r, addr)
             [] b = "nokey" -> Return(r, Null, b)                      \* lines 693-694
             [] b = "start" -> StartGeocoding(r, addr)                 \* lines 696-718

\* the awaited promise has settled: the caller continues with its value
Resume(r) ==
    /\ caller[r].pc = "awaiting"
    /\ promise[caller[r].req].status = "settled"
    /\ LET p == caller[r].req
           c == [caller EXCEPT ![r] = [pc |-> "returned", addr |-> <<>>, req |-> 0,
                                       result |-> promise[p].value, via |-> "call"]]
       IN  /\ caller' = c
           /\ promise' = Collect([promise EXCEPT ![p].handed = promise[p].value],
                                 c, inflightGeocoding)
    /\ UNCHANGED <<fileContent, OPENCAGE_KEY, geocodeCache, inflightGeocoding,
                   outcome, writeFailed>>

\* the inner async function of promise p returns v: its finally block runs
Settle(p, v) ==
    LET addr == promise[p].addr
        inf == InflightDelete(inflightGeocoding, addr)                      \* line 714
    IN  /\ inflightGeocoding' = inf
        /\ promise' = Collect([promise EXCEPT ![p].status = "settled", ![p].value = v],
                              caller, inf)
        /\ UNCHANGED <<OPENCAGE_KEY, caller, writeFailed>>

\* a provider call ended without a result and null is stored for the address
SettleNullMemo(p) ==
    /\ Settle(p, Null)
    /\ outcome' = [outcome EXCEPT ![promise[p].addr] = [run |-> "failed", pair |-> Null]]
    /\ geocodeCache' = CachePut(geocodeCache, promise[p].addr, Null)
    /\ UNCHANGED fileContent

\* a provider call ended without a result: nothing is stored
SettleNull(p) ==
    /\ Settle(p, Null)
    /\ outcome' = [outcome EXCEPT ![promise[p].addr] = [run |-> "failed", pair |-> Null]]
    /\ UNCHANGED <<fileContent, geocodeCache>>

\* line 701: fetch rejects (provider unreachable, timeout): catch, line 712
FetchRejects(p) ==
    /\ promise[p].status = "fetch"
    /\ SettleNull(p)

\* line 702: the provider answers with a non-OK status (rate limit, bad key)
FetchNotOk(p) ==
    /\ promise[p].status = "fetch"
    /\ SettleNull(p)

\* line 701 then 703: an OK response; the function now awaits r.json()
FetchOk(p) ==
    /\ promise[p].status = "fetch"
    /\ promise' = [promise EXCEPT ![p].status = "json"]
    /\ UNCHANGED <<fileContent, OPENCAGE_KEY, geocodeCache, inflightGeocoding, caller,
                   outcome, writeFailed>>

\* line 703: r.json() rejects (the body is not JSON): catch, line 712
JsonRejects(p) ==
    /\ promise[p].status = "json"
    /\ SettleNull(p)

\* line 705: the response has no result with a geometry
JsonNoGeometry(p) ==
    /\ promise[p].status = "json"
    /\ SettleNull(p)

\* a save whose failure is not caught inside saveGeocodeCache: the entry is
\* stored, the error reaches the catch of line 711 and the call returns null
JsonGeometryWriteThrows(p, out, w) ==
    LET addr == promise[p].addr
        c == CachePut(geocodeCache, addr, out)
        v == IF w = "written" THEN out ELSE Null
    IN  /\ promise[p].status = "json"
        /\ geocodeCache' = c
        /\ fileContent' = saveGeocodeCache(c, fileContent, w)
        /\ writeFailed' = (writeFailed \/ w # "written")
        /\ outcome' = [outcome EXCEPT ![addr] = [run |-> "this", pair |-> out]]
        /\ inflightGeocoding' = InflightDelete(inflightGeocoding, addr)
        /\ promise' = Collect([promise EXCEPT ![p].status = "settled", ![p].value = v],
                              caller, InflightDelete(inflightGeocoding, addr))
        /\ UNCHANGED <<OPENCAGE_KEY, caller>>

\* lines 706-709: a result with a geometry: store it, save the file, return it
JsonGeometry(p, out, w) ==
    LET addr == promise[p].addr
        c == CachePut(geocodeCache, addr, out)                              \* line 707
    IN  /\ promise[p].status = "json"
        /\ geocodeCache' = c
        /\ fileContent' = saveGeocodeCache(c, fileContent, w)               \* line 708
        /\ writeFailed' = (writeFailed \/ w # "written")
        /\ outcome' = [outcome EXCEPT ![addr] = [run |-> "this", pair |-> out]]
        /\ inflightGeocoding' = InflightDelete(inflightGeocoding, addr)     \* line 714
        /\ promise' = Collect([promise EXCEPT ![p].status = "settled", ![p].value = out],
                              caller, InflightDelete(inflightGeocoding, addr))
        /\ UNCHANGED <<OPENCAGE_KEY, caller>>

\* the process ends and a new one starts: lines 666-685 run again
Restart ==
    /\ geocodeCache' = LoadGeocodeCache(fileContent)
    /\ OPENCAGE_KEY' \in BOOLEAN
    /\ inflightGeocoding' = [k \in Keys |-> 0]
    /\ promise' = [p \in PromiseIds |-> FreePromise]
    /\ caller' = [r \in Callers |-> IdleCaller]
    /\ outcome' = [k \in Keys |->
                     CASE outcome[k].run = "this" -> [outcome[k] EXCEPT !.run = "earlier"]
                       [] outcome[k].run = "failed" -> NoOutcome
                       [] OTHER -> outcome[k]]
    /\ UNCHANGED <<fileContent, writeFailed>>

----------------------------------------------------------------------------
(* The store-id-keyed cache: loadPdvsMap and /admin/clear-pdv-cache          *)
(* (src/app.js lines 105-208 and 400-407)                                   *)

\* number of loadPdvsMap passes (requests) that may run at the same time
NumPasses == 2

\* number of provider resolutions followed (each gets a serial number)
MaxResolutions == 3

Passes == 1..NumPasses

\* the id column of the rows of pdvs_final.csv; a row without id is skipped
Rows == << "s1", "", "s2" >>

\* a cache entry {lat, lon, endereco_formatado}; n is the serial number of the
\* resolution that made it (history)
Entry(v, n) == [t |-> "pair", lat |-> v.lat, lon |-> v.lon, stamp |-> n]

\* lines 105-115: readGeocache(); an empty file reads as '{}'
readGeocache(f) ==
    IF f.kind = "absent" THEN EmptyObject                         \* line 114
    ELSE IF f.kind \in {"unreadable", "garbage"} THEN EmptyObject \* catch, line 111
    ELSE [kind |-> f.kind, props |-> f.props]                     \* line 109

\* lines 117-123: the file after writeGeocache(obj)
writeGeocache(obj, f, w) ==
    CASE w = "written" -> JSONStringify(obj)
      [] w = "failed" -> f                                        \* catch, line 120
      [] w = "truncated" -> File("garbage", NoProps)

\* line 172: cache[id] && typeof cache[id].lat === 'number' && ...
IsCached(c, id) == Truthy(CacheGet(c, id))

IdlePass == [pc |-> "idle", cache |-> EmptyObject, i |-> 0, dirty |-> FALSE, map |-> {}]

\* lines 162-175: from row i on, the rows the loop passes without suspending:
\* the first row with an id that is not cached (Len(Rows) + 1: none)
RECURSIVE NextUncached(_, _)
NextUncached(c, i) ==
    IF i > Len(Rows) THEN i
    ELSE IF Rows[i] = "" \/ IsCached(c, Rows[i]) THEN NextUncached(c, i + 1)
    ELSE i

\* lines 193-203: the stores of rows i..j-1 that enter the map (all cached)
Mapped(i, j) == { Rows[n] : n \in { m \in i..(j - 1) : Rows[m] # "" } }

\* the loop runs on from row i with the local cache c: it stops at the next
\* provider call (line 178) or ends, writes the cache when dirty (line 206)
\* and returns the map
RunLoop(p, c, i, dirty, map, w) ==
    LET j == NextUncached(c, i)
        m == map \cup Mapped(i, j)
    IN  IF j <= Len(Rows)
        THEN /\ pass' = [pass EXCEPT ![p] = [pc |-> "geocoding", cache |-> c, i |-> j,
                                             dirty |-> dirty, map |-> m]]
             /\ UNCHANGED pdvFile
        ELSE /\ pass' = [pass EXCEPT ![p] = [pc |-> "done", cache |-> c, i |-> j,
                                             dirty |-> dirty, map |-> m]]
             /\ pdvFile' = IF dirty THEN writeGeocache(c, pdvFile, w) ELSE pdvFile

\* line 148 and lines 152-158: a request enters loadPdvsMap: the cache file
\* is read, then the pass waits for the rows of the CSV stream
BeginPass(p) ==
    /\ pass[p].pc \in {"idle", "done", "failed"}
    /\ pass' = [pass EXCEPT ![p] = [IdlePass EXCEPT !.pc = "rows",
                                                   !.cache = readGeocache(pdvFile)]]
    /\ UNCHANGED <<pdvFile, stamp, clearedAt>>

\* line 157: the stream fails: loadPdvsMap rejects
RowsError(p) ==
    /\ pass[p].pc = "rows"
    /\ pass' = [pass EXCEPT ![p].pc = "failed"]
    /\ UNCHANGED <<pdvFile, stamp, clearedAt>>

\* line 156: the rows are read: the loop starts
RowsLoaded(p, w) ==
    /\ pass[p].pc = "rows"
    /\ RunLoop(p, pass[p].cache, 1, FALSE, {}, w)
    /\ UNCHANGED <<stamp, clearedAt>>

\* lines 178-184: the provider resolves the address of row i: the entry is
\* put in the local cache and the pass sleeps 150 ms
GeocodeOk(p, v) ==
    /\ pass[p].pc = "geocoding"
    /\ stamp < MaxResolutions
    /\ stamp' = stamp + 1
    /\ pass' = [pass EXCEPT ![p].pc = "sleep",
                            ![p].cache = CachePut(pass[p].cache, Rows[pass[p].i],
                                                  Entry(v, stamp + 1)),
                            ![p].dirty = TRUE]
    /\ UNCHANGED <<pdvFile, clearedAt>>

\* line 184 then 194-203: the pause is over: the store enters the map
SleepDone(p, w) ==
    /\ pass[p].pc = "sleep"
    /\ RunLoop(p, pass[p].cache, pass[p].i + 1, pass[p].dirty,
               pass[p].map \cup {Rows[pass[p].i]}, w)
    /\ UNCHANGED <<stamp, clearedAt>>

\* lines 185-187: the provider has no result with a geometry: the store is
\* left out
GeocodeNull(p, w) ==
    /\ pass[p].pc = "geocoding"
    /\ RunLoop(p, pass[p].cache, pass[p].i + 1, pass[p].dirty, pass[p].map, w)
    /\ UNCHANGED <<stamp, clearedAt>>

\* lines 127, 131 and 188-190: no key, a non-OK status or a network error:
\* geocodeAddress throws, the loop catches it and leaves the store out
GeocodeThrows(p, w) ==
    /\ pass[p].pc = "geocoding"
    /\ RunLoop(p, pass[p].cache, pass[p].i + 1, pass[p].dirty, pass[p].map, w)
    /\ UNCHANGED <<stamp, clearedAt>>

\* lines 400-403: POST /admin/clear-pdv-cache removes the file and answers ok
ClearPdvCache ==
    /\ pdvFile' = File("absent", NoProps)
    /\ clearedAt' = stamp
    /\ UNCHANGED <<pass, stamp>>

\* lines 404-406: unlinkSync throws: the answer is 500 and the file stays
ClearPdvCacheFails ==
    /\ pdvFile.kind # "absent"
    /\ UNCHANGED pdvVars

PdvIdle ==
    /\ pdvFile = File("absent", NoProps)
    /\ pass = [p \in Passes |-> IdlePass]
    /\ stamp = 0
    /\ clearedAt = -1

----------------------------------------------------------------------------
(* Numbers *)

\* A JavaScript number is NaN or a value; angles are whole degrees, and the
\* values of Math.sin, Math.cos and Math.sqrt are thousandths rounded to the
\* nearest, as a double is the real value rounded to the nearest double.
NaN == [nan |-> TRUE, v |-> 0]
Num(v) == [nan |-> FALSE, v |-> v]

\* x === y on numbers: NaN is equal to nothing, itself included
StrictEquals(x, y) == ~x.nan /\ ~y.nan /\ x.v = y.v

\* sin of 0, 7.5, ..., 90 degrees, in thousandths
SinTable == <<0, 131, 259, 383, 500, 609, 707, 793, 866, 924, 966, 991, 1000>>

\* Math.sin of t times 7.5 degrees, in thousandths
RECURSIVE MathSin(_)
MathSin(t) ==
    IF t < 0 THEN -MathSin(-t)
    ELSE IF t >= 48 THEN MathSin(t % 48)
    ELSE IF t > 24 THEN -MathSin(t - 24)
    ELSE IF t > 12 THEN MathSin(24 - t)
    ELSE IF t = 0 THEN 0 ELSE SinTable[t + 1]

\* Math.cos of t times 7.5 degrees, in thousandths
MathCos(t) == MathSin(t + 12)

RECURSIVE SqrtBetween(_, _, _)
SqrtBetween(n, lo, hi) ==
    IF hi - lo <= 1 THEN (IF hi * hi <= n THEN hi ELSE lo)
    ELSE LET mid == (lo + hi) \div 2
         IN  IF mid * mid <= n THEN SqrtBetween(n, mid, hi)
                               ELSE SqrtBetween(n, lo, mid)

\* Math.sqrt of a number of millionths, in thousandths: NaN below zero
MathSqrt(x) ==
    IF x.nan \/ x.v < 0 THEN NaN ELSE Num(SqrtBetween(x.v, 0, 2000))

\* Math.atan2(y, x) for y, x >= 0, in steps of 7.5 degrees: NaN when an
\* argument is NaN
MathAtan2(y, x) ==
    IF y.nan \/ x.nan THEN NaN
    ELSE Num(CHOOSE t \in 0..12 :
                /\ MathSin(t) * x.v <= MathCos(t) * y.v
                /\ \A u \in (t + 1)..12 : MathSin(u) * x.v > MathCos(u) * y.v)

\* a number of millionths rounded to thousandths
Thousandths(x) == (x + 500) \div 1000

\* app.js line 728
R == 6371

\* lines 727-736, for coordinates that are multiples of 15 degrees; a is in
\* millionths and the result in thousandths of a km
distance(lat1, lon1, lat2, lon2) ==
    LET dLat == (lat2 - lat1) \div 15      \* dLat / 2 in steps of 7.5 degrees
        dLon == (lon2 - lon1) \div 15
        a == MathSin(dLat) * MathSin(dLat) +
                Thousandths(MathCos(2 * (lat1 \div 15)) * MathCos(2 * (lat2 \div 15)))
                    * Thousandths(MathSin(dLon) * MathSin(dLon))
        c == MathAtan2(MathSqrt(Num(a)), MathSqrt(Num(1000000 - a)))
    IN  IF c.nan THEN NaN ELSE Num(R * 2 * c.v * 131)

\* +d.toFixed(2): hundredths of a km, rounded to the nearest
ToFixed2(d) == IF d.nan THEN NaN ELSE Num((d.v + 5) \div 10)

\* the coordinates the helpers are applied to
Latitudes == { 15 * i : i \in -6..6 }
Longitudes == { 60 * i : i \in -3..3 }

----------------------------------------------------------------------------
(* Addresses of store rows *)

Digits == {"0", "1", "2", "3", "4", "5", "6", "7", "8", "9"}

Comma == <<",", SP>>
Brasil == <<"B", "r", "a", "s", "i", "l">>

\* s.replace(/\D/g, '')
RECURSIVE DigitsOf(_)
DigitsOf(s) ==
    IF s = <<>> THEN <<>>
    ELSE IF s[1] \in Digits THEN <<s[1]>> \o DigitsOf(Tail(s))
    ELSE DigitsOf(Tail(s))

\* d.slice(0, max)
Slice0(d, max) == IF Len(d) <= max THEN d ELSE SubSeq(d, 1, max)

\* lines 723-726 (max = 0: no max given)
onlyDigits(s, max) == IF max # 0 THEN Slice0(DigitsOf(s), max) ELSE DigitsOf(s)

\* parts.join(', ')
RECURSIVE Join(_)
Join(parts) ==
    IF parts = <<>> THEN <<>>
    ELSE IF Len(parts) = 1 THEN parts[1]
    ELSE parts[1] \o Comma \o Join(Tail(parts))

\* parts after `if (x) parts.push(x)`
Push(parts, x) == IF x # <<>> THEN Append(parts, x) ELSE parts

\* lines 737-752
buildAddressFromRow(row) ==
    LET rua == norm(row.rua)
        bairro == norm(row.bairro)
        cidade == norm(row.cidade)
        uf == norm(row.estado)
        cep == onlyDigits(row.cep, 8)
        p3 == Push(Push(Push(<<>>, rua), bairro), cidade)
        p4 == IF uf # <<>> THEN Append(p3, uf \o Comma \o Brasil)
                           ELSE Append(p3, Brasil)
    IN  Join(Push(p4, cep))

\* lines 28-35: the string values of a row, trimmed
normalizeRow(row) == [k \in DOMAIN row |-> norm(row[k])]

\* lines 55-57: parts.filter(Boolean).map(s => String(s).trim()).join(', ')
safeJoin(parts) ==
    LET kept == SelectSeq(parts, LAMBDA x : x # <<>>)
    IN  Join([i \in 1..Len(kept) |-> norm(kept[i])])

\* lines 59-71, applied to a row of normalizeRow
buildAddress(row) ==
    LET cep == DigitsOf(row.cep)
    IN  safeJoin(<<row.rua, row.bairro, row.cidade>>)
            \o <<SP, "-", SP>> \o row.estado \o Comma \o Brasil
            \o (IF cep # <<>> THEN Comma \o cep ELSE <<>>)

\* the raw rows of the store file the helpers are applied to
RowInputs ==
    [ rua : { <<>>, <<SP>>, <<"R">>, <<SP, "R", SP>> },
      bairro : { <<>>, <<SP>>, <<"B">> },
      cidade : { <<>>, <<"C">> },
      estado : { <<>>, <<SP>>, <<"S", "C">> },
      cep : { <<>>, <<"-">>, <<"8", "9", "-", "1">>,
              <<"1", "2", "3", "4", "5", "6", "7", "8", "9">> } ]

----------------------------------------------------------------------------
(* The helpers, applied *)

NoCall == [fn |-> "none", args |-> <<>>, result |-> <<>>]

CallDistance(p, q) ==
    /\ call = NoCall
    /\ call' = [fn |-> "distance", args |-> <<p, q>>,
                result |-> distance(p[1], p[2], q[1], q[2])]
    /\ UNCHANGED <<cacheVars, pdvVars, queryVars>>

CallBuildAddressFromRow(row) ==
    /\ call = NoCall
    /\ call' = [fn |-> "buildAddressFromRow", args |-> row,
                result |-> buildAddressFromRow(row)]
    /\ UNCHANGED <<cacheVars, pdvVars, queryVars>>

CallBuildAddress(row) ==
    /\ call = NoCall
    /\ call' = [fn |-> "buildAddress", args |-> row,
                result |-> buildAddress(normalizeRow(row))]
    /\ UNCHANGED <<cacheVars, pdvVars, queryVars>>

PureIdle == call = NoCall

----------------------------------------------------------------------------
(* The store file, the join table and the query parameters *)

\* number of rows of pdvs.csv that have an id
NumStores == 21

\* the id of the i-th store
StoreId(i) == <<"s", ToString(i)>>

\* pdvs.csv: id;nome;rua;bairro;cidade;cep;estado, and a last row without id
PDVS_FILE ==
    [i \in 1..NumStores |->
        [id |-> StoreId(i), rua |-> <<"R", ToString(i)>>, bairro |-> <<>>,
         cidade |-> <<>>, cep |-> <<>>, estado |-> <<>>]]
    \o << [id |-> <<SP>>, rua |-> <<"R">>, bairro |-> <<>>, cidade |-> <<>>,
           cep |-> <<>>, estado |-> <<>>] >>

\* lines 776-793: the Map as the sequence of its values in insertion order
\* (the ids of PDVS_FILE are distinct); coords stands for latitude and
\* longitude, both undefined after the load
loadPdvsMap(rows) ==
    LET kept == SelectSeq(rows, LAMBDA row : norm(row.id) # <<>>)
    IN  [i \in 1..Len(kept) |->
            [id |-> norm(kept[i].id), endereco |-> buildAddressFromRow(kept[i]),
             coords |-> Undefined]]

\* pdvMap.get(pdvId): the position of the store, 0 for undefined
MapGet(map, pdvId) ==
    IF \E i \in 1..Len(map) : map[i].id = pdvId
    THEN CHOOSE i \in 1..Len(map) : map[i].id = pdvId
    ELSE 0

\* what the geocoding provider knows of the address of the i-th store
ProviderPair(i) == Pair(15 * ((i % 5) - 2), 60 * ((i % 3) - 1))

P09123 == <<"0", "9", "1", "2", "3">>
P91123 == <<"9", "1", "1", "2", "3">>
P99123 == <<"9", "9", "1", "2", "3">>
P9123 == <<"9", "1", "2", "3">>
P0123 == <<"0", "1", "2", "3">>

Link(pid, pdvId) == [produto_id |-> pid, pdv_id |-> pdvId]

\* pdv_produtos.csv with a repeated link, a store linked to both variants of
\* an id, two ids of four digits, a store that pdvs.csv does not have, and a
\* product of its own for store 5
SmallTable ==
    << Link(P09123, StoreId(1)), Link(P99123, StoreId(2)),
       Link(P09123, StoreId(1)), Link(P99123, StoreId(1)),
       Link(P9123, StoreId(3)), Link(P0123, StoreId(4)),
       Link(<<SP>> \o P09123, <<"z">>), Link(P99123, StoreId(6)),
       Link(P91123, StoreId(5)) >>

\* pdv_produtos.csv linking every store to one product
BigTable == [i \in 1..NumStores |-> Link(P09123, StoreId(i))]

\* a parameter of req.query: absent, or a string
Missing == [present |-> FALSE, s |-> <<>>]
Param(s) == [present |-> TRUE, s |-> s]

\* String(x ?? '')
StringOr(x) == IF x.present THEN x.s ELSE <<>>

ProductIdInputs ==
    { Missing, Param(<<>>), Param(<<SP>>), Param(P09123), Param(P99123 \o <<SP>>),
      Param(P9123), Param(P0123) }
LatInputs ==
    { Missing, Param(<<>>), Param(<<"a">>), Param(<<"-", "3", "0">>),
      Param(<<"1", "5">>) }
LonInputs ==
    { Missing, Param(<<"a">>), Param(<<"-", "6", "0">>), Param(<<"1", "2", "0">>) }
CepInputs ==
    { Missing, Param(<<"8", "9">>),
      Param(<<"8", "9", "2", "0", "1", "-", "0", "0", "0">>),
      Param(<<"8", "9", "2", "0", "1", "0", "0", "0", "1">>) }

\* +s: the number a string converts to (the strings of the inputs above)
ToNumber(s) ==
    CASE norm(s) = <<>> -> Num(0)
      [] norm(s) = <<"-", "3", "0">> -> Num(-30)
      [] norm(s) = <<"-", "6", "0">> -> Num(-60)
      [] norm(s) = <<"1", "5">> -> Num(15)
      [] norm(s) = <<"-", "1", "5">> -> Num(-15)
      [] norm(s) = <<"1", "2", "0">> -> Num(120)
      [] OTHER -> NaN

\* Number.isFinite(x)
IsFinite(x) == ~x.nan

\* the given id alone, whatever its form
CandidatesNoSibling(productIdRaw) == {productIdRaw}

\* the variants without the test of the five digits
CandidatesAnyLength(productIdRaw) ==
    {productIdRaw} \cup
        (IF productIdRaw[1] = "9" THEN { <<"0">> \o Tail(productIdRaw) } ELSE {})
        \cup
        (IF productIdRaw[1] = "0" THEN { <<"9">> \o Tail(productIdRaw) } ELSE {})

\* lines 894-898: the candidate variants of a product id
Candidates(productIdRaw) ==
    {productIdRaw} \cup
        (IF Len(productIdRaw) = 5 /\ \A i \in 1..5 : productIdRaw[i] \in Digits
         THEN (IF productIdRaw[1] = "9" THEN { <<"0">> \o Tail(productIdRaw) } ELSE {})
              \cup
              (IF productIdRaw[1] = "0" THEN { <<"9">> \o Tail(productIdRaw) } ELSE {})
         ELSE {})

\* (a, b) => a.distancia_km - b.distancia_km, as Array.prototype.sort reads
\* it: a result of NaN counts as 0
Compare(a, b) ==
    IF a.distancia_km.nan \/ b.distancia_km.nan THEN 0
    ELSE a.distancia_km.v - b.distancia_km.v

RECURSIVE InsertSorted(_, _)
InsertSorted(sorted, x) ==
    IF sorted = <<>> THEN <<x>>
    ELSE IF Compare(sorted[Len(sorted)], x) > 0
         THEN Append(InsertSorted(SubSeq(sorted, 1, Len(sorted) - 1), x),
                     sorted[Len(sorted)])
         ELSE Append(sorted, x)

\* out.sort(compare): a stable sort
RECURSIVE ArraySort(_)
ArraySort(out) ==
    IF out = <<>> THEN <<>>
    ELSE InsertSorted(ArraySort(SubSeq(out, 1, Len(out) - 1)), out[Len(out)])

----------------------------------------------------------------------------
(* The routes /pdvs/proximos/produto and /pdvs/proximos *)

NoRequest == [route |-> "none", productId |-> Missing, lat |-> Missing,
              lon |-> Missing, cep |-> Missing]

IdleHandler ==
    [pc |-> "idle", productIdRaw |-> <<>>, candidates |-> {}, userLat |-> NaN,
     userLon |-> NaN, postal |-> "none",
     answer |-> [kind |-> "none", lat |-> Missing, lng |-> Missing],
     pdvMap |-> <<>>, bucket |-> <<>>, i |-> 0, out |-> <<>>, unresolved |-> {}]

NoResponse == [status |-> 0, body |-> <<>>]

NoPipeline == [loads |-> 0, geocodes |-> 0, provider |-> 0]

\* res.status(status).json(...): the handler ends
Respond(h, status, body) ==
    /\ response' = [status |-> status, body |-> body]
    /\ handler' = [h EXCEPT !.pc = "done"]

\* the call loadPdvsMap() and the await of its promise
AwaitPdvs(h) ==
    /\ handler' = [h EXCEPT !.pc = "loadPdvs"]
    /\ pipeline' = [pipeline EXCEPT !.loads = @ + 1]
    /\ UNCHANGED response

\* lines 887-900
ProdutoArrives(productId, lat, lon) ==
    /\ handler.pc = "idle"
    /\ request' = [NoRequest EXCEPT !.route = "produto", !.productId = productId,
                                    !.lat = lat, !.lon = lon]
    /\ LET productIdRaw == norm(StringOr(productId))
           userLat == ToNumber(StringOr(lat))
           userLon == ToNumber(StringOr(lon))
       IN  IF productIdRaw = <<>> \/ ~IsFinite(userLat) \/ ~IsFinite(userLon)
           THEN Respond(handler, 400, <<>>) /\ UNCHANGED pipeline
           ELSE AwaitPdvs([handler EXCEPT !.productIdRaw = productIdRaw,
                                          !.candidates = Candidates(productIdRaw),
                                          !.userLat = userLat, !.userLon = userLon])
    /\ UNCHANGED <<PDV_PROD_FILE, cacheVars, pdvVars, pureVars>>

\* lines 831-835
CepArrives(cep) ==
    /\ handler.pc = "idle"
    /\ request' = [NoRequest EXCEPT !.route = "cep", !.cep = cep]
    /\ IF Len(onlyDigits(StringOr(cep), 8)) # 8
       THEN Respond(handler, 400, <<>>)
       ELSE handler' = [handler EXCEPT !.pc = "cepFetch"] /\ UNCHANGED response
    /\ UNCHANGED <<pipeline, PDV_PROD_FILE, cacheVars, pdvVars, pureVars>>

\* lines 835, 853-856: fetch rejects, the postal provider cannot be reached
CepFetchRejects ==
    /\ handler.pc = "cepFetch"
    /\ Respond([handler EXCEPT !.postal = "unreachable"], 500, <<>>)
    /\ UNCHANGED <<request, pipeline, PDV_PROD_FILE, cacheVars, pdvVars, pureVars>>

\* lines 835-836
CepFetched ==
    /\ handler.pc = "cepFetch"
    /\ handler' = [handler EXCEPT !.pc = "cepJson"]
    /\ UNCHANGED <<request, response, pipeline, PDV_PROD_FILE, cacheVars, pdvVars,
                   pureVars>>

\* lines 836, 853-856: r.json() rejects, the answer is not JSON text
CepJsonRejects ==
    /\ handler.pc = "cepJson"
    /\ Respond([handler EXCEPT !.postal = "unreadable"], 500, <<>>)
    /\ UNCHANGED <<request, pipeline, PDV_PROD_FILE, cacheVars, pdvVars, pureVars>>

\* the answers of the postal provider that are JSON text: null, an object
\* without coordinates, an object with lat and lng
CepAnswers ==
    { [kind |-> "null", lat |-> Missing, lng |-> Missing],
      [kind |-> "object", lat |-> Missing, lng |-> Missing],
      [kind |-> "object", lat |-> Param(<<"-", "3", "0">>), lng |-> Missing],
      [kind |-> "object", lat |-> Param(<<"-", "3", "0">>),
       lng |-> Param(<<"-", "6", "0">>)] }

\* an answer that is never found lacking
LacksCoordsNever(j) == FALSE

\* !j.lat || !j.lng
LacksCoords(j) == ~j.lat.present \/ j.lat.s = <<>> \/ ~j.lng.present \/ j.lng.s = <<>>

\* lines 836-840
CepJson(j) ==
    /\ handler.pc = "cepJson"
    /\ LET h == [handler EXCEPT !.postal = "answered", !.answer = j]
       IN  IF j.kind = "null"
           THEN Respond(h, 500, <<>>) /\ UNCHANGED pipeline     \* TypeError
           ELSE IF LacksCoords(j)
           THEN Respond(h, 404, <<>>) /\ UNCHANGED pipeline
           ELSE AwaitPdvs([h EXCEPT !.userLat = ToNumber(j.lat.s),
                                    !.userLon = ToNumber(j.lng.s)])
    /\ UNCHANGED <<request, PDV_PROD_FILE, cacheVars, pdvVars, pureVars>>

\* the stream of a csv file emits 'error': the promise rejects, lines 853-856
\* and 927-930
CsvError ==
    /\ handler.pc \in {"loadPdvs", "joinTable"}
    /\ Respond(handler, 500, <<>>)
    /\ UNCHANGED <<request, pipeline, PDV_PROD_FILE, cacheVars, pdvVars, pureVars>>

\* lines 905-911: the stores of the rows of the join table that match
RECURSIVE Bucket(_, _, _)
Bucket(rows, candidates, pdvMap) ==
    IF rows = <<>> THEN <<>>
    ELSE LET row == rows[1]
             pdv == MapGet(pdvMap, norm(row.pdv_id))
             rest == Bucket(Tail(rows), candidates, pdvMap)
         IN  IF norm(row.produto_id) \notin candidates THEN rest
             ELSE IF pdv # 0 THEN <<pdv>> \o rest
             ELSE rest

\* an answer that reports the stores the loop could not resolve as an error
FinishOrFail(h) ==
    IF h.unresolved # {} THEN Respond(h, 500, <<>>) ELSE Respond(h, 200, ArraySort(h.out))

\* lines 851-852 and 925-926
Finish(h) == Respond(h, 200, ArraySort(h.out))

\* the for loop reaches its next store, or its end
Loop(h) ==
    IF h.i <= Len(h.bucket)
    THEN handler' = [h EXCEPT !.pc = "ensure"] /\ UNCHANGED response
    ELSE Finish(h)

\* lines 840-843 and 900-903
PdvsLoaded ==
    /\ handler.pc = "loadPdvs"
    /\ LET pdvMap == loadPdvsMap(PDVS_FILE)
       IN  IF request.route = "produto"
           THEN handler' = [handler EXCEPT !.pc = "joinTable", !.pdvMap = pdvMap]
                    /\ UNCHANGED response
           ELSE Loop([handler EXCEPT !.pdvMap = pdvMap, !.i = 1,
                                     !.bucket = [i \in 1..Len(pdvMap) |-> i]])
    /\ UNCHANGED <<request, pipeline, PDV_PROD_FILE, cacheVars, pdvVars, pureVars>>

\* lines 902-917
JoinLoaded ==
    /\ handler.pc = "joinTable"
    /\ Loop([handler EXCEPT !.i = 1,
                !.bucket = Bucket(PDV_PROD_FILE, handler.candidates, handler.pdvMap)])
    /\ UNCHANGED <<request, pipeline, PDV_PROD_FILE, cacheVars, pdvVars, pureVars>>

\* the address of the i-th store
StoreAddress(i) == buildAddressFromRow(PDVS_FILE[i])

\* `await geocodeAddress(addr)` (lines 687-719) for the request served alone,
\* addr being the address of store s: a hit of the cache, null without a key,
\* or a call of the provider that ends with null or with the pair of the
\* address, stored and saved
GeocodeResults(addr, s) ==
    LET hit == CacheGet(geocodeCache, norm(addr))
        stay == [geo |-> Null, called |-> 1, provider |-> 0, cache |-> geocodeCache,
                 file |-> fileContent, failed |-> FALSE]
        put == CachePut(geocodeCache, norm(addr), ProviderPair(s))
    IN  IF Truthy(hit) THEN { [stay EXCEPT !.geo = hit] }
        ELSE IF ~OPENCAGE_KEY THEN { stay }
        ELSE { [stay EXCEPT !.provider = 1] } \cup
             { [stay EXCEPT !.provider = 1, !.geo = ProviderPair(s), !.cache = put,
                            !.file = saveGeocodeCache(put, fileContent, w),
                            !.failed = (w # "written")] : w \in WriteOutcomes }

\* line 797: the store has its coordinates, geocodeAddress is not called
Known(coords) ==
    [geo |-> coords, called |-> 0, provider |-> 0, cache |-> geocodeCache,
     file |-> fileContent, failed |-> FALSE]

\* a test of the result that lets every store through
ResolvedAlways(geo) == TRUE

\* line 799: `if (!geo) return false`
Resolved(geo) == Truthy(geo)

\* lines 919-923; n is the place of the store in the loop
OutEntry(h, pdv, n) ==
    [id |-> pdv.id, coords |-> pdv.coords, n |-> n,
     distancia_km |-> ToFixed2(distance(h.userLat.v, h.userLon.v,
                                        pdv.coords.lat, pdv.coords.lon))]

\* lines 796-803 with 843-850 and 917-924: ensureCoords returns for the store
\* the loop is at, and the loop goes on to its next await or to the answer
EnsureCoords ==
    /\ handler.pc = "ensure"
    /\ LET s == handler.bucket[handler.i]
           pdv == handler.pdvMap[s]
       IN  \E g \in (IF Truthy(pdv.coords) THEN { Known(pdv.coords) }
                     ELSE GeocodeResults(pdv.endereco, s)) :
             /\ geocodeCache' = g.cache
             /\ fileContent' = g.file
             /\ writeFailed' = (writeFailed \/ g.failed)
             /\ pipeline' = [pipeline EXCEPT !.geocodes = @ + g.called,
                                             !.provider = @ + g.provider]
             /\ IF Resolved(g.geo)
                THEN LET found == [pdv EXCEPT !.coords = g.geo]
                     IN  Loop([handler EXCEPT
                                 !.pdvMap[s] = found,
                                 !.out = Append(@, OutEntry(handler, found, handler.i)),
                                 !.i = @ + 1])
                ELSE Loop([handler EXCEPT !.unresolved = @ \cup {handler.i},
                                          !.i = @ + 1])
    /\ UNCHANGED <<request, PDV_PROD_FILE, OPENCAGE_KEY, inflightGeocoding, promise,
                   caller, outcome, pdvVars, pureVars>>

QueryIdle ==
    /\ PDV_PROD_FILE = <<>>
    /\ request = NoRequest
    /\ handler = IdleHandler
    /\ response = NoResponse
    /\ pipeline = NoPipeline

----------------------------------------------------------------------------
(* The in-memory server: src/server.js, and its older copy                  *)
(* src/unnamed/part_000 where the two differ                                *)

\* server.js line 223: the length the product route of server.js cuts its
\* answer to
Top == 20

Builds == {"server.js", "part_000"}

P1 == <<"p", "1">>
P2 == <<"p", "2">>

\* produtos.csv: the id column of its rows
ProductsCsv == << [id |-> P1], [id |-> <<SP>>], [id |-> P2 \o <<SP>>] >>

\* pdv_produtos_filtrado_final.csv: id_pdv;codigo. Store 1 has two products,
\* rows without a store or without a product, and a store that the store file
\* does not have
MappingCsv ==
    << [id_pdv |-> StoreId(1), codigo |-> P1],
       [id_pdv |-> StoreId(2) \o <<SP>>, codigo |-> P1],
       [id_pdv |-> <<>>, codigo |-> P1],
       [id_pdv |-> StoreId(1), codigo |-> P2],
       [id_pdv |-> StoreId(3), codigo |-> <<SP>>],
       [id_pdv |-> StoreId(3), codigo |-> P1],
       [id_pdv |-> StoreId(4), codigo |-> P1],
       [id_pdv |-> StoreId(6), codigo |-> P1],
       [id_pdv |-> StoreId(9), codigo |-> P1] >>

\* pdvs_final.csv: id;latitude;longitude. Store 2 has a latitude that is not
\* a number, store 3 lies opposite to (15, 120) on the globe, the next row has
\* no id, store 4 has no latitude and longitude columns, store 5 is linked to
\* no product, store 6 has empty latitude and longitude cells
StoresCsv ==
    << [id |-> StoreId(2), latitude |-> Param(<<"x">>),
        longitude |-> Param(<<"-", "6", "0">>)],
       [id |-> StoreId(3), latitude |-> Param(<<"-", "1", "5">>),
        longitude |-> Param(<<"-", "6", "0">>)],
       [id |-> <<SP>>, latitude |-> Param(<<"1", "5">>),
        longitude |-> Param(<<"1", "2", "0">>)],
       [id |-> StoreId(4), latitude |-> Missing, longitude |-> Missing],
       [id |-> <<SP>> \o StoreId(1), latitude |-> Param(<<"-", "3", "0">>),
        longitude |-> Param(<<"-", "6", "0">>)],
       [id |-> StoreId(5), latitude |-> Param(<<"1", "5">>),
        longitude |-> Param(<<"1", "2", "0">>)],
       [id |-> StoreId(6), latitude |-> Param(<<>>), longitude |-> Param(<<>>)] >>

\* how reading a CSV file can go: the file does not exist; the stream ends
\* after the last row; after some rows the parser emits 'error'; after some
\* rows the read stream emits 'error' (EACCES, EISDIR, EIO)
Reads(file) ==
    { [rows |-> <<>>, how |-> "missing"], [rows |-> file, how |-> "end"] }
        \cup { [rows |-> SubSeq(file, 1, k), how |-> h] :
                 k \in 0..Len(file), h \in {"parserError", "readError"} }

\* loadCsv, server.js lines 55-69 and part_000 lines 63-73: how the promise of
\* loadCsv ends. .on('error', reject) is attached to the parser that pipe()
\* returns; pipe() does not pass the errors of the read stream on, so its
\* 'error' has no listener and is thrown. server.js survives it (line 234
\* logs uncaught exceptions) with a promise that never settles; part_000 has
\* no such handler and no test of existsSync, and the process ends.
loadCsv(b, how) ==
    CASE how = "end" -> "resolve"
      [] how = "parserError" -> "reject"
      [] how = "missing" -> IF b = "server.js" THEN "resolve" ELSE "crash"
      [] how = "readError" -> IF b = "server.js" THEN "pending" ELSE "crash"

\* where bootstrap is after a load whose loadCsv ended as `ended`: server.js
\* catches the rejection inside each loader (lines 87, 103, 126) and goes on;
\* part_000 catches it around the three awaits (lines 145-155) and stops
AfterLoad(b, ended, next) ==
    CASE ended = "resolve" -> next
      [] ended = "reject" -> IF b = "server.js" THEN next ELSE "aborted"
      [] ended = "pending" -> "hung"
      [] ended = "crash" -> "crashed"

NoBoot == [pc |-> "off", order |-> <<>>, failed |-> {}]

\* order: the loads in the order they started; failed: the loads whose read
\* did not reach the end of an existing file (history)
Started(name, read, next) ==
    [pc |-> AfterLoad(build, loadCsv(build, read.how), next),
     order |-> Append(boot.order, name),
     failed |-> boot.failed \cup (IF read.how \in {"parserError", "readError"}
                                  THEN {name} ELSE {})]

\* loadProducts, server.js lines 71-90: the rows are pushed as they arrive
loadProducts(read) ==
    /\ boot.pc = "products"
    /\ LET ids == [i \in 1..Len(read.rows) |-> norm(read.rows[i].id)]
       IN  products' = SelectSeq(ids, LAMBDA id : id # <<>>)
    /\ boot' = Started("products", read, "mapping")
    /\ UNCHANGED <<build, pdvProductsMapping, stores, reply>>

\* lines 96-100 for the rows in turn
RECURSIVE MappingOf(_)
MappingOf(rows) ==
    IF rows = <<>> THEN [k \in {} |-> <<>>]
    ELSE LET m == MappingOf(SubSeq(rows, 1, Len(rows) - 1))
             id_pdv == norm(rows[Len(rows)].id_pdv)
             codigo == norm(rows[Len(rows)].codigo)
         IN  IF id_pdv = <<>> \/ codigo = <<>> THEN m
             ELSE [k \in DOMAIN m \cup {id_pdv} |->
                     IF k = id_pdv
                     THEN (IF k \in DOMAIN m THEN Append(m[k], codigo) ELSE <<codigo>>)
                     ELSE m[k]]

\* loadPdvProductsMapping, server.js lines 92-106
loadPdvProductsMapping(read) ==
    /\ boot.pc = "mapping"
    /\ pdvProductsMapping' = MappingOf(read.rows)
    /\ boot' = Started("mapping", read, "stores")
    /\ UNCHANGED <<build, products, stores, reply>>

\* toNum, server.js lines 131-135 (the strings of the files have no comma)
toNum(v) ==
    IF ~v.present THEN NaN
    ELSE LET n == ToNumber(v.s) IN IF IsFinite(n) THEN n ELSE NaN

\* part_000 lines 117-118: Number(String(data.latitude ?? '').replace(',', '.'))
NumberOfColumn(v) == ToNumber(StringOr(v))

\* server.js lines 112-122: the store of a row; m is pdvProductsMapping
StoreOf(b, m, data) ==
    [id |-> norm(data.id),
     latitude |-> IF b = "server.js" THEN toNum(data.latitude)
                  ELSE NumberOfColumn(data.latitude),
     longitude |-> IF b = "server.js" THEN toNum(data.longitude)
                   ELSE NumberOfColumn(data.longitude),
     products |-> IF norm(data.id) \in DOMAIN m THEN m[norm(data.id)] ELSE <<>>]

\* loadStores, server.js lines 108-129
loadStores(read) ==
    /\ boot.pc = "stores"
    /\ LET all == [i \in 1..Len(read.rows) |->
                     StoreOf(build, pdvProductsMapping, read.rows[i])]
       IN  stores' = SelectSeq(all, LAMBDA s : s.id # <<>>)
    /\ boot' = Started("stores", read, "done")
    /\ UNCHANGED <<build, products, pdvProductsMapping, reply>>

\* haversineKm, server.js lines 137-147, on numbers: the computation of
\* distance (app.js lines 727-736) and +(R * c).toFixed(2); NaN when an
\* argument is NaN
haversineKm(lat1, lon1, lat2, lon2) ==
    IF lat1.nan \/ lon1.nan \/ lat2.nan \/ lon2.nan THEN NaN
    ELSE ToFixed2(distance(lat1.v, lon1.v, lat2.v, lon2.v))

\* a distancia_km: null, or a number
NullDistance == [isNull |-> TRUE, nan |-> FALSE, v |-> 0]
Distance(x) == [isNull |-> FALSE, nan |-> x.nan, v |-> x.v]

\* Number(req.query.lat): undefined is NaN
NumberOf(x) == IF x.present THEN ToNumber(x.s) ELSE NaN

\* s.products.includes(productId)
Includes(list, x) == \E i \in 1..Len(list) : list[i] = x

\* server.js line 213: Number.isFinite of both; part_000 line 222: typeof
\* both === 'number', which NaN passes
Usable(b, s) ==
    IF b = "server.js" THEN IsFinite(s.latitude) /\ IsFinite(s.longitude) ELSE TRUE

\* server.js lines 217-221: the comparator, as Array.prototype.sort reads it
\* (a result of NaN counts as 0)
CompareNullLast(a, b) ==
    IF a.distancia_km.isNull THEN 1
    ELSE IF b.distancia_km.isNull THEN -1
    ELSE IF a.distancia_km.nan \/ b.distancia_km.nan THEN 0
    ELSE a.distancia_km.v - b.distancia_km.v

RECURSIVE InsertNullLast(_, _)
InsertNullLast(sorted, x) ==
    IF sorted = <<>> THEN <<x>>
    ELSE IF CompareNullLast(sorted[Len(sorted)], x) > 0
         THEN Append(InsertNullLast(SubSeq(sorted, 1, Len(sorted) - 1), x),
                     sorted[Len(sorted)])
         ELSE Append(sorted, x)

\* withDist.sort(compare): insertion of each element in turn
RECURSIVE SortNullLast(_)
SortNullLast(list) ==
    IF list = <<>> THEN <<>>
    ELSE InsertNullLast(SortNullLast(SubSeq(list, 1, Len(list) - 1)), list[Len(list)])

NoReply == [status |-> 0, productId |-> <<>>, body |-> <<>>]

ServerLatInputs == { Missing, Param(<<"a">>), Param(<<"1", "5">>), Param(<<"-", "3", "0">>) }
ServerLonInputs == { Missing, Param(<<"1", "2", "0">>), Param(<<"-", "6", "0">>) }
ServerProductInputs == { Missing, Param(P1 \o <<SP>>), Param(P2) }

\* GET /pdvs/proximos/produto, server.js lines 202-224 (part_000 lines
\* 208-233), served at any moment after listen
ServerProduto(pid, qlat, qlon) ==
    /\ reply = NoReply
    /\ boot.pc # "crashed"
    /\ LET productId == norm(StringOr(pid))
           lat == NumberOf(qlat)
           lon == NumberOf(qlon)
           candidates == SelectSeq(stores, LAMBDA s : Includes(s.products, productId))
           withDist == [i \in 1..Len(candidates) |->
                          [id |-> candidates[i].id,
                           latitude |-> candidates[i].latitude,
                           longitude |-> candidates[i].longitude,
                           distancia_km |->
                              IF Usable(build, candidates[i])
                              THEN Distance(haversineKm(lat, lon, candidates[i].latitude,
                                                        candidates[i].longitude))
                              ELSE NullDistance]]
       IN  IF productId = <<>> \/ lat.nan \/ lon.nan
           THEN reply' = [status |-> 400, productId |-> productId, body |-> <<>>]
           ELSE reply' = [status |-> 200, productId |-> productId,
                          body |-> Slice0(SortNullLast(withDist), Top)]
    /\ UNCHANGED <<build, boot, products, pdvProductsMapping, stores>>

ServerIdle ==
    /\ build = "server.js"
    /\ boot = NoBoot
    /\ products = <<>>
    /\ pdvProductsMapping = [k \in {} |-> <<>>]
    /\ stores = <<>>
    /\ reply = NoReply

----------------------------------------------------------------------------
(* The warm-up script: src/warm_geocode.js *)

\* warm_geocode.js line 59
CONC == 3

\* a row of pdvs_final.csv with street x
WarmRow(x) ==
    [id |-> <<>>, rua |-> x, bairro |-> <<>>, cidade |-> <<>>, cep |-> <<>>,
     estado |-> <<>>]

\* the store files the script reads: an empty one, and one of six rows with
\* five distinct addresses, one of them twice (with and without blanks)
WarmCsvs ==
    { <<>>,
      << WarmRow(<<"A">>), WarmRow(<<"B">>), WarmRow(<<SP, "A">>), WarmRow(<<"C">>),
         WarmRow(<<"D">>), WarmRow(<<"E">>) >> }

\* buildAddress, warm_geocode.js lines 18-27: the code of buildAddressFromRow
warmBuildAddress(row) == buildAddressFromRow(row)

\* [...new Set(addrs)], line 58: the first occurrence of each address
RECURSIVE Dedupe(_)
Dedupe(addrs) ==
    IF addrs = <<>> THEN <<>>
    ELSE LET front == Dedupe(SubSeq(addrs, 1, Len(addrs) - 1))
             last == addrs[Len(addrs)]
         IN  IF \E n \in 1..Len(front) : front[n] = last THEN front
             ELSE Append(front, last)

\* lines 11-16: the value of `cache` after the module is loaded
LoadWarmCache(f) ==
    IF f.kind = "absent" THEN EmptyObject                         \* existsSync is false
    ELSE IF f.kind \in {"unreadable", "garbage"} THEN EmptyObject \* catch {}
    ELSE [kind |-> f.kind, props |-> f.props]                     \* JSON.parse(...)

\* line 73: the file after fs.writeFileSync(GEOCODE_CACHE_FILE, ...)
writeCacheFile(c, f, w) ==
    CASE w = "written" -> JSONStringify(c)
      [] w = "failed" -> f
      [] w = "truncated" -> File("garbage", NoProps)

\* what the runtime does with a promise that rejects and has no handler:
\* "throw" ends the process (the default of Node 15 and later), "warn" logs
\* and goes on (the default before)
UnhandledModes == {"throw", "warn"}

\* pc: "off", "running", "saved", "exited" (no key), "died" (ended without
\* the write of line 73 succeeding). status: per queued address "queued",
\* "fetch", "json" or "done". History: loaded (the cache as loaded), calls
\* (the addresses passed to geocode, in order), resolved (the addresses the
\* provider resolved), cause (what made the process die)
NoWarm ==
    [pc |-> "off", unhandled |-> "throw", cache |-> EmptyObject, loaded |-> EmptyObject,
     queue |-> <<>>, i |-> 1, running |-> 0, timers |-> 0, status |-> <<>>,
     calls |-> <<>>, resolved |-> {}, cause |-> "none"]

\* a loop that starts every address left in the queue
BatchAll(w) == Len(w.queue) - w.i + 1

\* line 65: the number of calls the while loop starts
Batch(w) ==
    IF CONC - w.running < Len(w.queue) - w.i + 1
    THEN (IF CONC - w.running > 0 THEN CONC - w.running ELSE 0)
    ELSE Len(w.queue) - w.i + 1

\* lines 65-68, and the microtasks that follow: geocode returns at once for
\* an address that is cached (line 31), and the finally callback of such a
\* call runs when the loop is over
StartCalls(w) ==
    LET k == Batch(w)
        started == w.i..(w.i + k - 1)
        hits == { n \in started : Truthy(CacheGet(w.cache, w.queue[n])) }
    IN  [w EXCEPT !.i = w.i + k,
                  !.running = w.running + k - Cardinality(hits),
                  !.timers = w.timers + Cardinality(hits),
                  !.status = [n \in 1..Len(w.queue) |->
                                IF n \in hits THEN "done"
                                ELSE IF n \in started THEN "fetch"
                                ELSE w.status[n]],
                  !.calls = w.calls \o [j \in 1..k |-> w.queue[w.i + j - 1]]]

\* lines 63-69 and, when the promise of line 62 resolves, line 73
tick(w, wo) ==
    IF w.i > Len(w.queue) /\ w.running = 0
    THEN /\ fileContent' = writeCacheFile(w.cache, fileContent, wo)
         /\ warm' = IF wo = "written" THEN [w EXCEPT !.pc = "saved"]
                    ELSE [w EXCEPT !.pc = "died", !.cause = "write"]
    ELSE /\ warm' = StartCalls(w)
         /\ UNCHANGED fileContent

\* lines 42-46: without a key the script exits
WarmNoKey ==
    /\ warm.pc = "off"
    /\ ~OPENCAGE_KEY
    /\ warm' = [warm EXCEPT !.pc = "exited"]
    /\ UNCHANGED <<fileContent, OPENCAGE_KEY>>

\* lines 47-54: the stream of the store file emits 'error': main rejects
WarmCsvError ==
    /\ warm.pc = "off"
    /\ OPENCAGE_KEY
    /\ warm' = [warm EXCEPT !.pc = "died", !.cause = "csv"]
    /\ UNCHANGED <<fileContent, OPENCAGE_KEY>>

\* lines 11-16, 47-60 and the first call of tick (line 70)
WarmStart(file, wo) ==
    /\ warm.pc = "off"
    /\ OPENCAGE_KEY
    /\ LET addrs == [n \in 1..Len(file) |-> warmBuildAddress(file[n])]
           queue == Dedupe(addrs)
           cache == LoadWarmCache(fileContent)
       IN  tick([warm EXCEPT !.pc = "running", !.cache = cache, !.loaded = cache,
                             !.queue = queue,
                             !.status = [n \in 1..Len(queue) |-> "queued"]], wo)
    /\ UNCHANGED OPENCAGE_KEY

\* a timer of line 67 fires
WarmTick(wo) ==
    /\ warm.pc = "running"
    /\ warm.timers > 0
    /\ tick([warm EXCEPT !.timers = @ - 1], wo)
    /\ UNCHANGED OPENCAGE_KEY

\* line 67: the promise of geocode(addr) settles and the finally callback
\* runs; the promise that finally() returns has no handler, so a rejection is
\* left to the runtime
Settled(w, n, rejected) ==
    LET after == [w EXCEPT !.status[n] = "done", !.running = @ - 1, !.timers = @ + 1]
    IN  /\ warm' = IF rejected /\ w.unhandled = "throw"
                   THEN [after EXCEPT !.pc = "died", !.cause = "geocode"]
                   ELSE after
        /\ UNCHANGED <<fileContent, OPENCAGE_KEY>>

\* line 33: fetch throws (network error); nothing in geocode catches it
WarmFetchRejects(n) ==
    /\ warm.pc = "running" /\ warm.status[n] = "fetch"
    /\ Settled(warm, n, TRUE)

\* line 34: a non-OK status
WarmFetchNotOk(n) ==
    /\ warm.pc = "running" /\ warm.status[n] = "fetch"
    /\ Settled(warm, n, FALSE)

\* lines 33-35: an OK response; geocode awaits r.json()
WarmFetchOk(n) ==
    /\ warm.pc = "running" /\ warm.status[n] = "fetch"
    /\ warm' = [warm EXCEPT !.status[n] = "json"]
    /\ UNCHANGED <<fileContent, OPENCAGE_KEY>>

\* line 35: r.json() rejects
WarmJsonRejects(n) ==
    /\ warm.pc = "running" /\ warm.status[n] = "json"
    /\ Settled(warm, n, TRUE)

\* line 37: no result with a geometry
WarmJsonNoGeometry(n) ==
    /\ warm.pc = "running" /\ warm.status[n] = "json"
    /\ Settled(warm, n, FALSE)

\* lines 38-39: the pair is stored in the cache
WarmJsonGeometry(n, out) ==
    /\ warm.pc = "running" /\ warm.status[n] = "json"
    /\ Settled([warm EXCEPT !.cache = CachePut(warm.cache, warm.queue[n], out),
                            !.resolved = @ \cup {warm.queue[n]}], n, FALSE)

WarmIdle == warm = NoWarm

----------------------------------------------------------------------------
(* Specification of the address-keyed cache *)

OlderEntry == SetProp(NoProps, <<"b">>, Pair(-27, -49))

\* the cache files a process finds at its start when only this program and
\* its warm-up script touch the file: none, one a failed write cut short, or
\* the JSON text of an object of resolved pairs (<<"b">> is an address
\* resolved earlier that no request asks for again)
InitialFiles ==
    { File(k, NoProps) : k \in {"absent", "garbage"} }
        \cup { File("object", OlderEntry),
               File("object", SetProp(OlderEntry, <<"a">>, Pair(-26, -48))) }

\* the same, and the files made by other hands: one that cannot be read, and
\* JSON text that is not an object
AnyFiles == InitialFiles \cup { File(k, NoProps) : k \in FileKinds }

InitFrom(files) ==
    /\ fileContent \in files
    /\ OPENCAGE_KEY \in BOOLEAN
    /\ geocodeCache = LoadGeocodeCache(fileContent)
    /\ inflightGeocoding = [k \in Keys |-> 0]
    /\ promise = [p \in PromiseIds |-> FreePromise]
    /\ caller = [r \in Callers |-> IdleCaller]
    /\ outcome = [k \in Keys |-> NoOutcome]
    /\ writeFailed = FALSE
    /\ PdvIdle
    /\ PureIdle
    /\ QueryIdle
    /\ ServerIdle
    /\ WarmIdle

Init == InitFrom(InitialFiles)

InitAnyFile == InitFrom(AnyFiles)

Next ==
    \/ \E r \in Callers, a \in AddrInputs : geocodeAddress(r, a) /\ UNCHANGED <<pdvVars, pureVars, queryVars, serverVars, warmVars>>
    \/ \E r \in Callers : Resume(r) /\ UNCHANGED <<pdvVars, pureVars, queryVars, serverVars, warmVars>>
    \/ \E p \in PromiseIds : FetchRejects(p) /\ UNCHANGED <<pdvVars, pureVars, queryVars, serverVars, warmVars>>
    \/ \E p \in PromiseIds : FetchNotOk(p) /\ UNCHANGED <<pdvVars, pureVars, queryVars, serverVars, warmVars>>
    \/ \E p \in PromiseIds : FetchOk(p) /\ UNCHANGED <<pdvVars, pureVars, queryVars, serverVars, warmVars>>
    \/ \E p \in PromiseIds : JsonRejects(p) /\ UNCHANGED <<pdvVars, pureVars, queryVars, serverVars, warmVars>>
    \/ \E p \in PromiseIds : JsonNoGeometry(p) /\ UNCHANGED <<pdvVars, pureVars, queryVars, serverVars, warmVars>>
    \/ \E p \in PromiseIds, out \in Pairs, w \in WriteOutcomes :
            JsonGeometry(p, out, w) /\ UNCHANGED <<pdvVars, pureVars, queryVars, serverVars, warmVars>>

\* one run of the process, from every cache file it can find at its start
Spec == Init /\ [][Next]_vars

\* the same, with the process ending and starting again on the file it left
NextRestart ==
    \/ Next
    \/ Restart /\ UNCHANGED <<pdvVars, pureVars, queryVars, serverVars, warmVars>>

SpecRestart == Init /\ [][NextRestart]_vars

\* one run of the process, from every content of the cache file
SpecAnyFile == InitAnyFile /\ [][Next]_vars

\* what the event loop guarantees: a caller whose awaited promise has settled
\* is resumed. Nothing in lines 696-718 bounds the wait for fetch(url) or for
\* r.json() (no timeout option, no AbortController), so the steps that end a
\* provider call are the provider's to take, or never to take.
Scheduling ==
    \A r \in Callers : WF_vars(Resume(r) /\ UNCHANGED <<pdvVars, pureVars, queryVars, serverVars, warmVars>>)

\* one run of the process under that scheduling
SpecLive == Init /\ [][Next]_vars /\ Scheduling

----------------------------------------------------------------------------
(* Claims about the address-keyed cache *)

\* C1: for every key at most one provider call is outstanding at any instant:
\* a resolve of a key that is not cached and has a request in flight issues
\* no second call.
C1_AtMostOneOutstanding ==
    \A k \in Keys : Cardinality(Outstanding(k)) <= 1

\* the starter and a joiner wait for the one outstanding call of a key
C1_Witness ==
    \E k \in Keys, r1, r2 \in Callers :
        /\ Outstanding(k) # {}
        /\ caller[r1].pc = "awaiting" /\ caller[r1].addr = k /\ caller[r1].via = "start"
        /\ caller[r2].pc = "awaiting" /\ caller[r2].addr = k /\ caller[r2].via = "join"

\* C2: every caller that joins the request in flight for its key observes the
\* result of that request, the one its starter observes: a caller waits for
\* the promise made for its own address, and a value given to one caller of a
\* request is the value the request ends with.
C2_JoinersSeeSameResult ==
    /\ \A r \in Callers :
          caller[r].pc = "awaiting" =>
             /\ promise[caller[r].req].status # "free"
             /\ promise[caller[r].req].addr = caller[r].addr
    /\ \A p \in PromiseIds :
          (promise[p].status # "free" /\ promise[p].handed # Undefined) =>
             /\ promise[p].status = "settled"
             /\ promise[p].handed = promise[p].value

\* one caller of a request has got a pair and a joiner is about to get it
C2_Witness ==
    \E p \in PromiseIds, r \in Callers :
        /\ promise[p].status = "settled"
        /\ promise[p].handed \in Pairs
        /\ caller[r].pc = "awaiting" /\ caller[r].req = p /\ caller[r].via = "join"

\* C3: once a resolve of a key has succeeded in this process, the key stays
\* cached with that pair, every later resolve of it is a cache hit, and a hit
\* returns the stored pair.
C3_MonotoneMemo ==
    /\ \A k \in Keys :
          outcome[k].run = "this" =>
             /\ CacheGet(geocodeCache, k) = outcome[k].pair
             /\ Branch(k) = "hit"
    /\ \A r \in Callers :
          (caller[r].pc = "returned" /\ caller[r].via = "hit") =>
             \E k \in Keys : caller[r].result = CacheGet(geocodeCache, k)

\* a resolve of a key resolved earlier in this run returned from the cache
C3_Witness ==
    \E r \in Callers, k \in Keys :
        /\ caller[r].pc = "returned" /\ caller[r].via = "hit"
        /\ outcome[k].run = "this"
        /\ caller[r].result = outcome[k].pair

\* C4: after a provider call of a key ended in not-found or in an error the
\* key is not in the cache, and a resolve of it made when no request for it is
\* in flight starts a new provider call.
C4_NoNegativeMemo ==
    \A k \in Keys :
        outcome[k].run = "failed" =>
            /\ k \notin DOMAIN geocodeCache.props
            /\ ~InflightHas(inflightGeocoding, k) => Branch(k) = "start"

\* a key whose last call failed has a new call outstanding
C4_Witness ==
    \E k \in Keys : outcome[k].run = "failed" /\ Outstanding(k) # {}

\* C5: the in-flight map holds an entry only for a provider call that has not
\* completed; with no call outstanding it is empty.
C5_NoInflightLeak ==
    \A k \in Keys :
        InflightHas(inflightGeocoding, k) =>
            promise[inflightGeocoding[k]].status \in {"fetch", "json"}

\* C6: resolve never raises to its caller; it returns null when no credential
\* is configured, and then makes no provider call and no in-flight entry; a
\* resolve that waited for a provider call returns null unless the call ended
\* with a geometry, and then the pair of that geometry.
C6_NeverRaises ==
    /\ \A r \in Callers :
          /\ caller[r].pc # "raised"
          /\ (caller[r].pc = "returned" /\ caller[r].via = "nokey") =>
                caller[r].result = Null
          /\ (caller[r].pc = "returned" /\ caller[r].via = "call") =>
                \/ caller[r].result = Null
                \/ \E k \in Keys : /\ outcome[k].run = "this"
                                   /\ caller[r].result = outcome[k].pair
    /\ ~OPENCAGE_KEY =>
          \A k \in Keys : ~InflightHas(inflightGeocoding, k) /\ Outstanding(k) = {}

\* a resolve whose provider call failed has returned null
C6_Witness ==
    \E r \in Callers, k \in Keys :
        /\ caller[r].pc = "returned" /\ caller[r].via = "call"
        /\ caller[r].result = Null
        /\ outcome[k].run = "failed"
        /\ \A p \in PromiseIds : promise[p].status = "free"

\* C7: as long as no write has failed, the mapping stored in geocode_cache.json
\* (what loading the file gives) equals the mapping in memory.
C7_FileEqualsMemory ==
    ~writeFailed => LoadGeocodeCache(fileContent) = geocodeCache

\* a pair resolved in this run has been written next to an older entry
C7_Witness ==
    /\ ~writeFailed
    /\ outcome[<<"a">>].run = "this"
    /\ DOMAIN fileContent.props = { <<"a">>, <<"b">> }

\* C8 as stated: a key resolved in an earlier run of the process is a cache
\* hit with the identical pair in a later run.
C8_RoundTripAlways ==
    \A k \in Keys :
        outcome[k].run = "earlier" =>
            /\ CacheGet(geocodeCache, k) = outcome[k].pair
            /\ Branch(k) = "hit"

\* C8 (amended): as long as no write of the cache file has failed, a key
\* resolved in an earlier run of the process is a cache hit with the identical
\* pair in a later run.
C8_RoundTrip ==
    ~writeFailed => C8_RoundTripAlways

\* in a later run a resolve returned the pair of an earlier run from the cache
C8_Witness ==
    \E r \in Callers, k \in Keys :
        /\ ~writeFailed
        /\ caller[r].pc = "returned" /\ caller[r].via = "hit"
        /\ outcome[k].run = "earlier"
        /\ caller[r].result = outcome[k].pair

\* C9: whatever the cache file holds at startup, the cache in memory is a
\* mapping (the empty one when the file holds none) and no resolve raises.
C9_CorruptFileIsEmptyCache ==
    /\ geocodeCache.kind = "object"
    /\ \A r \in Callers : caller[r].pc # "raised"

----------------------------------------------------------------------------
(* Specification of the store-id-keyed cache *)

CacheIdle ==
    /\ fileContent = File("absent", NoProps)
    /\ OPENCAGE_KEY = TRUE
    /\ geocodeCache = EmptyObject
    /\ inflightGeocoding = [k \in Keys |-> 0]
    /\ promise = [p \in PromiseIds |-> FreePromise]
    /\ caller = [r \in Callers |-> IdleCaller]
    /\ outcome = [k \in Keys |-> NoOutcome]
    /\ writeFailed = FALSE

\* the files pdv_geocache.json can be at the start: none, or what an earlier
\* pass wrote
InitialPdvFiles ==
    { File("absent", NoProps), File("object", NoProps),
      File("object", SetProp(NoProps, "s1", Entry(Pair(-26, -48), 0))) }

InitPdv ==
    /\ CacheIdle
    /\ PureIdle
    /\ QueryIdle
    /\ ServerIdle
    /\ WarmIdle
    /\ pdvFile \in InitialPdvFiles
    /\ pass = [p \in Passes |-> IdlePass]
    /\ stamp = 0
    /\ clearedAt = -1

NextPdv ==
    \/ \E p \in Passes : BeginPass(p) /\ UNCHANGED <<cacheVars, pureVars, queryVars, serverVars, warmVars>>
    \/ \E p \in Passes : RowsError(p) /\ UNCHANGED <<cacheVars, pureVars, queryVars, serverVars, warmVars>>
    \/ \E p \in Passes, w \in WriteOutcomes : RowsLoaded(p, w) /\ UNCHANGED <<cacheVars, pureVars, queryVars, serverVars, warmVars>>
    \/ \E p \in Passes, v \in Pairs : GeocodeOk(p, v) /\ UNCHANGED <<cacheVars, pureVars, queryVars, serverVars, warmVars>>
    \/ \E p \in Passes, w \in WriteOutcomes : SleepDone(p, w) /\ UNCHANGED <<cacheVars, pureVars, queryVars, serverVars, warmVars>>
    \/ \E p \in Passes, w \in WriteOutcomes : GeocodeNull(p, w) /\ UNCHANGED <<cacheVars, pureVars, queryVars, serverVars, warmVars>>
    \/ \E p \in Passes, w \in WriteOutcomes : GeocodeThrows(p, w) /\ UNCHANGED <<cacheVars, pureVars, queryVars, serverVars, warmVars>>
    \/ ClearPdvCache /\ UNCHANGED <<cacheVars, pureVars, queryVars, serverVars, warmVars>>
    \/ ClearPdvCacheFails /\ UNCHANGED <<cacheVars, pureVars, queryVars, serverVars, warmVars>>

SpecPdv == InitPdv /\ [][NextPdv]_vars

\* C10: once a clear has returned success, no entry resolved before the clear
\* is in pdv_geocache.json again.
C10_ClearedEntriesStayGone ==
    clearedAt >= 0 =>
        \A id \in DOMAIN pdvFile.props : pdvFile.props[id].stamp > clearedAt

----------------------------------------------------------------------------
(* Specification of the helpers *)

InitPure ==
    /\ CacheIdle
    /\ PdvIdle
    /\ QueryIdle
    /\ ServerIdle
    /\ WarmIdle
    /\ call = NoCall

NextPure ==
    \/ \E p, q \in Latitudes \X Longitudes :
            CallDistance(p, q) /\ UNCHANGED <<serverVars, warmVars>>
    \/ \E row \in RowInputs : CallBuildAddressFromRow(row) /\ UNCHANGED <<serverVars, warmVars>>
    \/ \E row \in RowInputs : CallBuildAddress(row) /\ UNCHANGED <<serverVars, warmVars>>

SpecPure == InitPure /\ [][NextPure]_vars

----------------------------------------------------------------------------
(* Specification of the routes *)

\* the cache of a process that has resolved the addresses of the stores of S
QueryCache(S) ==
    [kind |-> "object",
     props |-> [k \in { StoreAddress(i) : i \in S } |->
                   ProviderPair(CHOOSE i \in S : StoreAddress(i) = k)]]

\* every store resolved, or every store but the first two, or every store but
\* the three that SmallTable links to "99123"
CachedSets == { 1..NumStores, 3..NumStores, (3..NumStores) \ {6} }

InitQuery ==
    /\ \E S \in CachedSets : fileContent = JSONStringify(QueryCache(S))
    /\ OPENCAGE_KEY \in BOOLEAN
    /\ geocodeCache = LoadGeocodeCache(fileContent)
    /\ inflightGeocoding = [k \in Keys |-> 0]
    /\ promise = [p \in PromiseIds |-> FreePromise]
    /\ caller = [r \in Callers |-> IdleCaller]
    /\ outcome = [k \in Keys |-> NoOutcome]
    /\ writeFailed = FALSE
    /\ PdvIdle
    /\ PureIdle
    /\ ServerIdle
    /\ WarmIdle
    /\ PDV_PROD_FILE \in {SmallTable, BigTable}
    /\ request = NoRequest
    /\ handler = IdleHandler
    /\ response = NoResponse
    /\ pipeline = NoPipeline

NextQuery ==
    \/ \E productId \in ProductIdInputs, lat \in LatInputs, lon \in LonInputs :
            ProdutoArrives(productId, lat, lon) /\ UNCHANGED <<serverVars, warmVars>>
    \/ \E cep \in CepInputs : CepArrives(cep) /\ UNCHANGED <<serverVars, warmVars>>
    \/ CepFetchRejects /\ UNCHANGED <<serverVars, warmVars>>
    \/ CepFetched /\ UNCHANGED <<serverVars, warmVars>>
    \/ CepJsonRejects /\ UNCHANGED <<serverVars, warmVars>>
    \/ \E j \in CepAnswers : CepJson(j) /\ UNCHANGED <<serverVars, warmVars>>
    \/ CsvError /\ UNCHANGED <<serverVars, warmVars>>
    \/ PdvsLoaded /\ UNCHANGED <<serverVars, warmVars>>
    \/ JoinLoaded /\ UNCHANGED <<serverVars, warmVars>>
    \/ EnsureCoords /\ UNCHANGED <<serverVars, warmVars>>

SpecQuery == InitQuery /\ [][NextQuery]_vars

----------------------------------------------------------------------------
(* Specification of the in-memory server *)

\* server.js calls bootstrap() when the port is open (lines 227-230), part_000
\* at module load (line 155)
InitServer ==
    /\ CacheIdle
    /\ PdvIdle
    /\ PureIdle
    /\ QueryIdle
    /\ WarmIdle
    /\ build \in Builds
    /\ boot = [NoBoot EXCEPT !.pc = "products"]
    /\ products = <<>>
    /\ pdvProductsMapping = [k \in {} |-> <<>>]
    /\ stores = <<>>
    /\ reply = NoReply

NextServer ==
    \/ \E read \in Reads(ProductsCsv) :
            loadProducts(read) /\ UNCHANGED <<cacheVars, pdvVars, pureVars, queryVars, warmVars>>
    \/ \E read \in Reads(MappingCsv) :
            loadPdvProductsMapping(read) /\ UNCHANGED <<cacheVars, pdvVars, pureVars, queryVars, warmVars>>
    \/ \E read \in Reads(StoresCsv) :
            loadStores(read) /\ UNCHANGED <<cacheVars, pdvVars, pureVars, queryVars, warmVars>>
    \/ \E pid \in ServerProductInputs, qlat \in ServerLatInputs, qlon \in ServerLonInputs :
            ServerProduto(pid, qlat, qlon) /\ UNCHANGED <<cacheVars, pdvVars, pureVars, queryVars, warmVars>>

SpecServer == InitServer /\ [][NextServer]_vars

----------------------------------------------------------------------------
(* Specification of the warm-up script *)

\* the cache files the script can find: none, one a failed write cut short,
\* or an object with an address no store has and the address of street A
WarmFiles ==
    { File("absent", NoProps), File("garbage", NoProps),
      File("object", SetProp(OlderEntry, warmBuildAddress(WarmRow(<<"A">>)),
                             Pair(-26, -48))) }

InitWarm ==
    /\ fileContent \in WarmFiles
    /\ OPENCAGE_KEY \in BOOLEAN
    /\ geocodeCache = EmptyObject
    /\ inflightGeocoding = [k \in Keys |-> 0]
    /\ promise = [p \in PromiseIds |-> FreePromise]
    /\ caller = [r \in Callers |-> IdleCaller]
    /\ outcome = [k \in Keys |-> NoOutcome]
    /\ writeFailed = FALSE
    /\ PdvIdle
    /\ PureIdle
    /\ QueryIdle
    /\ ServerIdle
    /\ \E m \in UnhandledModes : warm = [NoWarm EXCEPT !.unhandled = m]

WarmRest ==
    UNCHANGED <<geocodeCache, inflightGeocoding, promise, caller, outcome, writeFailed,
                pdvVars, pureVars, queryVars, serverVars>>

NextWarm ==
    \/ WarmNoKey /\ WarmRest
    \/ WarmCsvError /\ WarmRest
    \/ \E file \in WarmCsvs, wo \in WriteOutcomes : WarmStart(file, wo) /\ WarmRest
    \/ \E wo \in WriteOutcomes : WarmTick(wo) /\ WarmRest
    \/ \E n \in 1..Len(warm.queue) : WarmFetchRejects(n) /\ WarmRest
    \/ \E n \in 1..Len(warm.queue) : WarmFetchNotOk(n) /\ WarmRest
    \/ \E n \in 1..Len(warm.queue) : WarmFetchOk(n) /\ WarmRest
    \/ \E n \in 1..Len(warm.queue) : WarmJsonRejects(n) /\ WarmRest
    \/ \E n \in 1..Len(warm.queue) : WarmJsonNoGeometry(n) /\ WarmRest
    \/ \E n \in 1..Len(warm.queue), out \in Pairs : WarmJsonGeometry(n, out) /\ WarmRest

SpecWarm == InitWarm /\ [][NextWarm]_vars

----------------------------------------------------------------------------
(* Claims about the helpers *)

\* C19: distance is symmetric and zero on identical points: for all
\* coordinate pairs p and q, distance(p, q) equals distance(q, p), and
\* distance(p, p) equals 0.
C19_SymmetricAndZero ==
    call.fn = "distance" =>
        LET p == call.args[1]
            q == call.args[2]
        IN  /\ StrictEquals(call.result, distance(q[1], q[2], p[1], p[2]))
            /\ p = q => StrictEquals(call.result, Num(0))

\* C20: the address of a store row is the comma-separated sequence of the
\* non-empty trimmed fields street, neighborhood, city in that order, then
\* "<state>, Brasil" when a state is present and "Brasil" alone otherwise,
\* then the digits of the postal code as last component when it has any
\* digit; no empty or whitespace-only field produces an empty segment.
C20_NormalizedAddress ==
    call.fn \in {"buildAddressFromRow", "buildAddress"} =>
        LET row == call.args
            fields == SelectSeq(<<norm(row.rua), norm(row.bairro), norm(row.cidade)>>,
                                LAMBDA x : x # <<>>)
            state == IF norm(row.estado) # <<>>
                     THEN <<norm(row.estado) \o Comma \o Brasil>>
                     ELSE <<Brasil>>
            postal == IF DigitsOf(row.cep) # <<>> THEN <<DigitsOf(row.cep)>> ELSE <<>>
        IN  call.result = Join(fields \o state \o postal)

----------------------------------------------------------------------------
(* Claims about the routes *)

\* C11: the answer of a product query never has more than 20 entries: it
\* holds exactly 20 when more than 20 stores qualify, and all of them when 20
\* or fewer qualify.
C11_AtMostTwentyNearest ==
    (request.route = "produto" /\ response.status = 200) =>
        /\ Len(response.body) <= Top
        /\ Len(handler.out) > Top => Len(response.body) = Top
        /\ Len(handler.out) <= Top => Len(response.body) = Len(handler.out)

\* C12: the answer of a nearest-store query is sorted ascending by distance:
\* of two adjacent entries the earlier one's distancia_km is less than or
\* equal to the later one's, and entries of equal distance keep the order in
\* which their stores were encountered.
C12_SortedByDistance ==
    response.status = 200 =>
        \A i \in 1..(Len(response.body) - 1) :
            LET a == response.body[i]
                b == response.body[i + 1]
            IN  /\ ~a.distancia_km.nan /\ ~b.distancia_km.nan
                /\ a.distancia_km.v <= b.distancia_km.v
                /\ a.distancia_km.v = b.distancia_km.v => a.n < b.n

\* C13: each store appears at most once in the answer of a product query,
\* also when the join table repeats a link or links the store to both
\* variants of the product id.
C13_EachStoreOnce ==
    (request.route = "produto" /\ response.status = 200) =>
        \A i, j \in 1..Len(response.body) :
            response.body[i].id = response.body[j].id => i = j

\* C14: a store whose address cannot be resolved is not in the answer,
\* although it is linked to the product, and every store in the answer has
\* a resolved coordinate pair.
C14_UnresolvedExcluded ==
    response.status = 200 =>
        \A i \in 1..Len(response.body) :
            /\ response.body[i].coords.t = "pair"
            /\ response.body[i].n \notin handler.unresolved

\* an answer that leaves out a store the loop could not resolve and holds
\* another one
C14_Witness ==
    /\ request.route = "produto"
    /\ response.status = 200
    /\ handler.unresolved # {}
    /\ response.body # <<>>

\* C15: product id "09123" also matches the stores linked to "91123", and
\* "91123" those linked to "09123"; an id that is not exactly 5 digits
\* matches only the stores linked to itself.
C15_SiblingIdsMatch ==
    (request.route = "produto" /\ response.status = 200) =>
        LET Linked(pid) ==
                { MapGet(handler.pdvMap, norm(PDV_PROD_FILE[k].pdv_id)) :
                    k \in { x \in 1..Len(PDV_PROD_FILE) :
                                norm(PDV_PROD_FILE[x].produto_id) = pid } } \ {0}
            Answered == { handler.bucket[response.body[i].n] :
                            i \in 1..Len(response.body) }
            Failed == { handler.bucket[n] : n \in handler.unresolved }
            raw == handler.productIdRaw
        IN  /\ raw = P09123 => Linked(P91123) \subseteq Answered \cup Failed
            /\ raw = P91123 => Linked(P09123) \subseteq Answered \cup Failed
            /\ Len(raw) # 5 => Answered \subseteq Linked(raw)

\* C15, amended: product id "09123" also matches the stores linked to
\* "99123", and "99123" those linked to "09123" (the leading digit is
\* swapped, the other four stay); an id that is not exactly 5 digits matches
\* only the stores linked to itself.
C15_LeadingDigitSwapped ==
    (request.route = "produto" /\ response.status = 200) =>
        LET Linked(pid) ==
                { MapGet(handler.pdvMap, norm(PDV_PROD_FILE[k].pdv_id)) :
                    k \in { x \in 1..Len(PDV_PROD_FILE) :
                                norm(PDV_PROD_FILE[x].produto_id) = pid } } \ {0}
            Answered == { handler.bucket[response.body[i].n] :
                            i \in 1..Len(response.body) }
            Failed == { handler.bucket[n] : n \in handler.unresolved }
            raw == handler.productIdRaw
        IN  /\ raw = P09123 => Linked(P99123) \subseteq Answered \cup Failed
            /\ raw = P99123 => Linked(P09123) \subseteq Answered \cup Failed
            /\ Len(raw) # 5 => Answered \subseteq Linked(raw)

\* the answer to "09123" holds store 2, which is linked to "99123" only, and
\* not store 5, which is linked to "91123"
C15_Witness ==
    /\ response.status = 200
    /\ handler.productIdRaw = P09123
    /\ PDV_PROD_FILE = SmallTable
    /\ \E i \in 1..Len(response.body) : response.body[i].id = StoreId(2)
    /\ \A i \in 1..Len(response.body) : response.body[i].id # StoreId(5)

\* C16: a product query whose productId is missing or empty, or whose lat
\* or lon is missing, empty or not a number, is answered with status 400,
\* and no store file is loaded and no provider call is made.
C16_BadInputIs400 ==
    LET Bad(x) == ~x.present \/ norm(x.s) = <<>> \/ x.s = <<"a">>
    IN  (/\ request.route = "produto"
         /\ Bad(request.productId) \/ Bad(request.lat) \/ Bad(request.lon))
            => (/\ response.status = 400
                /\ pipeline = NoPipeline)

C18_UnreachableIs404 ==
    handler.postal \in {"unreachable", "unreadable"} => response.status = 404

\* C21: a store that cannot be resolved never turns the request into an
\* error: once the handler loops over its stores, whatever each geocode call
\* gives (a pair, null, a provider error, a failed write of the cache file),
\* no response is sent before the loop ends and the response is then status
\* 200 with one entry for each store that was resolved, the empty list when
\* none was.
C21_StoreFailuresSwallowed ==
    handler.i >= 1 =>
        /\ handler.pc # "done" => response = NoResponse
        /\ handler.pc = "done" =>
              /\ response.status = 200
              /\ Len(response.body) = Len(handler.bucket) - Cardinality(handler.unresolved)
              /\ handler.unresolved = 1..Len(handler.bucket) => response.body = <<>>

\* every store of the loop was asked of the provider and none was resolved:
\* the answer is the empty list
C21_Witness ==
    /\ handler.pc = "done"
    /\ handler.bucket # <<>>
    /\ handler.unresolved = 1..Len(handler.bucket)
    /\ pipeline.provider = Len(handler.bucket)
    /\ response = [status |-> 200, body |-> <<>>]

\* C23: a postal-code query whose cep is missing, or does not hold exactly 8
\* digits, is answered at once with status 400: the postal provider is not
\* called, no store is loaded and no geocode call is made.
C23_BadCepIs400 ==
    (/\ request.route = "cep"
     /\ ~request.cep.present \/ Len(DigitsOf(request.cep.s)) # 8)
        => (/\ response.status = 400
            /\ handler.pc = "done"
            /\ handler.postal = "none"
            /\ pipeline = NoPipeline)

\* C26: the candidate set of a product query is the given id alone, unless
\* the id is exactly 5 digits and starts with "9" or "0": then it is the id
\* and the one sibling with the leading "9" replaced by "0", or the leading
\* "0" by "9", the other four digits unchanged; the stores the handler loops
\* over are those of pdvs.csv linked to an id of the set.
C26_CandidateSet ==
    (request.route = "produto" /\ handler.pc # "idle" /\ response.status # 400) =>
        LET raw == handler.productIdRaw
            fiveDigits == Len(raw) = 5 /\ \A i \in 1..Len(raw) : raw[i] \in Digits
            sibling == <<IF raw[1] = "9" THEN "0" ELSE "9">> \o SubSeq(raw, 2, Len(raw))
            expected == IF fiveDigits /\ raw[1] \in {"9", "0"} THEN {raw, sibling}
                        ELSE {raw}
            linked == { MapGet(handler.pdvMap, norm(PDV_PROD_FILE[k].pdv_id)) :
                          k \in { x \in 1..Len(PDV_PROD_FILE) :
                                      norm(PDV_PROD_FILE[x].produto_id) \in expected } }
                      \ {0}
        IN  /\ raw = norm(StringOr(request.productId))
            /\ handler.candidates = expected
            /\ handler.i >= 1 =>
                  { handler.bucket[n] : n \in 1..Len(handler.bucket) } = linked

\* the query for "99123 " loops over the stores linked to "99123" and to
\* "09123"; the query for "9123" over the store linked to "9123" alone
C26_Witness ==
    /\ request.route = "produto"
    /\ PDV_PROD_FILE = SmallTable
    /\ handler.i >= 1
    /\ \/ /\ handler.productIdRaw = P99123
          /\ handler.candidates = {P99123, P09123}
          /\ { handler.bucket[n] : n \in 1..Len(handler.bucket) } = {1, 2, 6}
       \/ /\ handler.productIdRaw = P9123
          /\ handler.candidates = {P9123}
          /\ { handler.bucket[n] : n \in 1..Len(handler.bucket) } = {3}

\* C25: a failed write of the cache file is absorbed: the provider call whose
\* result could not be saved still settles with the pair it resolved, the pair
\* is in the cache in memory and stays there for the rest of the process, the
\* callers that waited for the call get the pair, and no caller is raised to.
C25_WriteFailureAbsorbed ==
    /\ [](writeFailed =>
            /\ \A r \in Callers : caller[r].pc # "raised"
            /\ \A k \in Keys : outcome[k].run = "this" =>
                    CacheGet(geocodeCache, k) = outcome[k].pair)
    /\ [][ \A p \in PromiseIds :
            (/\ promise[p].status = "json"
             /\ promise'[p].status = "settled"
             /\ geocodeCache' # geocodeCache
             /\ fileContent' # JSONStringify(geocodeCache'))
                => /\ promise'[p].value \in Pairs
                   /\ promise'[p].value = CacheGet(geocodeCache', promise[p].addr)
                   /\ \A r \in Callers :
                         (caller[r].pc = "awaiting" /\ caller[r].req = p)
                            => caller'[r] = caller[r] ]_vars
    /\ [][ \A r \in Callers :
            (caller[r].pc = "awaiting" /\ caller'[r].pc = "returned")
                => caller'[r].result = promise[caller[r].req].value ]_vars

\* the write of a resolved pair failed, the file does not hold the pair, and
\* the caller that waited for the call has returned with it
C25_Witness ==
    \E r \in Callers, k \in Keys :
        /\ writeFailed
        /\ outcome[k].run = "this"
        /\ k \notin DOMAIN LoadGeocodeCache(fileContent).props
        /\ CacheGet(geocodeCache, k) = outcome[k].pair
        /\ caller[r].pc = "returned" /\ caller[r].via = "call"
        /\ caller[r].result = outcome[k].pair

\* C28: pdv_geocache.json only grows between clears: whenever a pass replaces
\* the file by a new object, whatever passes run at the same time, every store
\* id that had an entry in the file before the write has one after it.
C28_PdvCacheOnlyGrows ==
    [][ (pdvFile.kind = "object" /\ pdvFile'.kind = "object")
            => DOMAIN pdvFile.props \subseteq DOMAIN pdvFile'.props ]_vars

\* C22: every resolve call eventually returns, also when the provider never
\* answers: a caller that awaits a provider call eventually has its result,
\* and a provider call that was sent is eventually over, so that the entry
\* it keeps in flight goes.
C22_EveryResolveReturns ==
    /\ \A r \in Callers : (caller[r].pc = "awaiting") ~> (caller[r].pc = "returned")
    /\ \A k \in Keys : (Outstanding(k) # {}) ~> (Outstanding(k) = {})

----------------------------------------------------------------------------
(* Claims about the in-memory server *)

\* C24: in the answer of the in-memory product route the stores without
\* usable coordinates have a null distance and come last: no entry whose
\* distancia_km is null (or NaN, which JSON writes as null) comes before an
\* entry whose distancia_km is a number.
C24_NullDistancesLast ==
    reply.status = 200 =>
        /\ \A i \in 1..Len(reply.body) :
              LET row == CHOOSE r \in { StoresCsv[n] : n \in 1..Len(StoresCsv) } :
                            norm(r.id) = reply.body[i].id
                  NoNumber(x) == ~x.present \/ norm(x.s) = <<>> \/ ToNumber(x.s).nan
              IN  (NoNumber(row.latitude) \/ NoNumber(row.longitude)) =>
                     (reply.body[i].distancia_km.isNull \/ reply.body[i].distancia_km.nan)
        /\ \A i, j \in 1..Len(reply.body) :
              (/\ i < j
               /\ reply.body[i].distancia_km.isNull \/ reply.body[i].distancia_km.nan)
                  => (reply.body[j].distancia_km.isNull \/ reply.body[j].distancia_km.nan)

\* C27: bootstrap starts the loads in the order products, mapping, stores; a
\* load that fails does not keep the following loads from running; after
\* bootstrap every loaded store has the product list recorded for its id in
\* the mapping as loaded, which is empty when the load of the mapping failed.
C27_BootstrapOrderAndTolerance ==
    /\ \E n \in 0..3 : boot.order = SubSeq(<<"products", "mapping", "stores">>, 1, n)
    /\ boot.pc \in {"products", "mapping", "stores", "done"}
    /\ boot.pc = "done" =>
          /\ boot.order = <<"products", "mapping", "stores">>
          /\ \A i \in 1..Len(stores) :
                stores[i].products =
                    IF stores[i].id \in DOMAIN pdvProductsMapping
                    THEN pdvProductsMapping[stores[i].id] ELSE <<>>
          /\ "mapping" \in boot.failed =>
                \A i \in 1..Len(stores) : stores[i].products = <<>>

----------------------------------------------------------------------------
(* Claims about the warm-up script *)

\* C29: in the warm-up pass at most CONC (3) geocode calls are started and
\* not yet settled at any instant, and each distinct address of the store
\* file is passed to geocode at most once.
C29_BoundedAndOnce ==
    /\ Cardinality({ n \in 1..Len(warm.queue) : warm.status[n] \in {"fetch", "json"} })
            <= CONC
    /\ warm.running <= CONC
    /\ \A a, b \in 1..Len(warm.calls) : warm.calls[a] = warm.calls[b] => a = b

\* three calls are in flight and the two other addresses of the six rows have
\* been passed to geocode before
C29_Witness ==
    /\ warm.pc = "running"
    /\ Cardinality({ n \in 1..Len(warm.queue) : warm.status[n] \in {"fetch", "json"} })
            = CONC
    /\ Len(warm.calls) = 5
    /\ Len(warm.queue) = 5

\* C30: the warm-up pass always ends with its work saved: whatever each
\* geocode call gives (a cache hit, a pair, no result, a non-OK status, a
\* thrown network error), the pass is over only when every queued address
\* was started and has settled, the file then holds every entry loaded at
\* the start and every entry resolved in the pass, and no outcome of a call
\* makes the script end without writing the file.
C30_TerminatesAndSaves ==
    /\ warm.pc = "saved" =>
          /\ \A n \in 1..Len(warm.queue) : warm.status[n] = "done"
          /\ Len(warm.calls) = Len(warm.queue)
          /\ fileContent.kind = "object"
          /\ \A k \in DOMAIN warm.loaded.props :
                k \in DOMAIN fileContent.props /\ fileContent.props[k] = warm.loaded.props[k]
          /\ warm.resolved \subseteq DOMAIN fileContent.props
    /\ ~(warm.pc = "died" /\ warm.cause = "geocode")

====
